---- MODULE Spec2Model ----
(***************************************************************************)
(* Model of Plataforma-Curvas-Canguro: classification of anthropometric    *)
(* measurements against the Fenton / WHO reference curves                  *)
(* (procesar_tablas_visualizacion.py), growth-restriction flags, weekly    *)
(* interpolation, and the patient / measurement filters (filtros.py).      *)
(*                                                                         *)
(* A pandas DataFrame is a function from index label to row (a record);    *)
(* index labels are unique, as every table of the program is built with    *)
(* reset_index() and only sliced afterwards.  A missing number is NaN, a   *)
(* missing label is None.                                                  *)
(***************************************************************************)
EXTENDS Integers, Sequences, FiniteSets, TLC

VARIABLES
    fila_ant,        \* calcular_color_ant_edad: the measurement row classified
    z_scores_df,     \* calcular_color_ant_edad: the boundary table joined to it
    colores,         \* calcular_color_ant_edad: the result of the classification
    pacientes,       \* patient table: index label -> row
    antropometrias,  \* measurement table: index label -> row
    banderas,        \* flag columns of the patient table: column -> (label -> BOOLEAN)
    fase,            \* position of procesar_tablas_visualizacion
    filtro_pac,      \* result of the last patient filter (filtrar_por_RCIU / _RCEU)
    ant_semanal,     \* interpolar_antropometrias: the table it receives
    df_interpolado,  \* interpolar_antropometrias: the table it returns
    df_rangos,       \* the classified measurement table the measurement filters receive
    filtro_ant,      \* result of the last measurement filter
    validados,       \* validar_antropometrias_pacientes: the tables it returns
    reporte,         \* validar_antropometrias_pacientes: reporte_antropometrias.txt
    archivos,        \* leer_datos_curvas: the curve files present on disk
    lectura,         \* leer_datos_curvas: its position, its dictionaries, what it returned
    nan_info,        \* procesar_tablas_intermedias: the global nan_info
    llamadas,        \* procesar_tablas_intermedias: the calls of remover_nan made so far
    ant_interpoladas,        \* the interpolated table calcular_color_antropometrias receives
    ant_rangos,              \* calcular_color_antropometrias: the dictionary it returns
    ant_interpoladas_rangos  \* combinar_rangos_antropometrias: the table it returns

vars == <<fila_ant, z_scores_df, colores, pacientes, antropometrias, banderas, fase,
          filtro_pac, ant_semanal, df_interpolado, df_rangos, filtro_ant,
          validados, reporte, archivos, lectura, nan_info, llamadas,
          ant_interpoladas, ant_rangos, ant_interpoladas_rangos>>

(***************************************************************************)
(* Bounds of the model.                                                    *)
(***************************************************************************)
MaxValor == 2

(***************************************************************************)
(* Missing values.                                                         *)
(***************************************************************************)
NaN == -1
None == "None"

\* A comparison with NaN is False (fila_ant[col_ant] < fila_ant[col_z_score]).
\* Mutation: a missing number compares as a number.
MenorSinNaN(a, b) == a < b

Menor(a, b) == a # NaN /\ b # NaN /\ a < b

(***************************************************************************)
(* utils.py                                                                *)
(***************************************************************************)
\* Mutation: the WHO labels out of order.
Z_SCORE_COLS_desordenado ==
    [fenton |-> <<"des_3Neg", "des_2Neg", "des_1Neg", "des_0", "des_1", "des_2", "des_3">>,
     who    |-> <<"des_1Neg", "des_2Neg", "des_0", "des_1", "des_2">>]

Z_SCORE_COLS ==
    [fenton |-> <<"des_3Neg", "des_2Neg", "des_1Neg", "des_0", "des_1", "des_2", "des_3">>,
     who    |-> <<"des_2Neg", "des_1Neg", "des_0", "des_1", "des_2">>]

COLORES_RANGOS ==
    [fenton |-> [outlier_neg          |-> "#ff7402",
                 outlier_pos          |-> "#ff7402",
                 outlier_neg_des_3Neg |-> "#bf0036",
                 des_3Neg_des_2Neg    |-> "#8310cc",
                 des_2Neg_des_1Neg    |-> "#0e7dc2",
                 des_1Neg_des_0       |-> "#08c754",
                 des_0_des_1          |-> "#08c754",
                 des_1_des_2          |-> "#0e7dc2",
                 des_2_des_3          |-> "#8310cc",
                 des_3_outlier_pos    |-> "#bf0036"],
     who    |-> [outlier_neg       |-> "#bd8f5d",
                 outlier_pos       |-> "#bd8f5d",
                 des_3Neg_des_2Neg |-> "#bd5d79",
                 des_2Neg_des_1Neg |-> "#749eb8",
                 des_1Neg_des_0    |-> "#73bc90",
                 des_0_des_1       |-> "#73bc90",
                 des_1_des_2       |-> "#749eb8",
                 des_2_des_3       |-> "#bd5d79"]]

Sistemas == {"fenton", "who"}

(***************************************************************************)
(* calcular_color_ant: the band of one joined row.                         *)
(*   valor   : fila_ant[col_ant]                                           *)
(*   limites : fila_ant[col_z_score] for each col_z_score of cols_z_scores *)
(* The result is [error, color, etiqueta]; error = "KeyError" when the     *)
(* joined key is not in dicc_color.                                        *)
(***************************************************************************)
Resultado(color, etiqueta) == [error |-> "", color |-> color, etiqueta |-> etiqueta]
KeyError == [error |-> "KeyError", color |-> "", etiqueta |-> ""]

\* The indices at which the loop's test fila_ant[col_ant] < fila_ant[col_z_score] is true.
Excedentes(valor, limites) == {i \in 1..Len(limites) : Menor(valor, limites[i])}

Primero(S) == CHOOSE i \in S : \A j \in S : i <= j

\* Mutation: the band's upper label is returned as its lower label.
calcular_color_ant_sup(valor, limites, cols_z_scores, dicc_color) ==
    LET S == Excedentes(valor, limites) IN
    IF S = {} THEN Resultado(dicc_color["outlier_pos"], "outlier_pos")
    ELSE LET i == Primero(S) IN
         IF i = 1 THEN Resultado(dicc_color["outlier_neg"], None)
         ELSE LET llave_color == cols_z_scores[i-1] \o "_" \o cols_z_scores[i] IN
              IF llave_color \in DOMAIN dicc_color
              THEN Resultado(dicc_color[llave_color], cols_z_scores[i])
              ELSE KeyError

calcular_color_ant(valor, limites, cols_z_scores, dicc_color) ==
    LET S == Excedentes(valor, limites) IN
    IF S = {} THEN Resultado(dicc_color["outlier_pos"], "outlier_pos")
    ELSE LET i == Primero(S) IN
         IF i = 1 THEN Resultado(dicc_color["outlier_neg"], None)
         ELSE LET llave_color == cols_z_scores[i-1] \o "_" \o cols_z_scores[i] IN
              IF llave_color \in DOMAIN dicc_color
              THEN Resultado(dicc_color[llave_color], cols_z_scores[i-1])
              ELSE KeyError

(***************************************************************************)
(* calcular_color_ant_edad: join the row to the boundary table on the      *)
(* exact day (a day the table lacks gives NaN in every boundary column)    *)
(* and classify it.                                                        *)
(***************************************************************************)
DiasCurva == {259}
DiasAnt == {259, 260}

\* filas_ant.join(z_scores_df.set_index('days'), on='AC_EG_Dias')
LimitesUnidos(fila, tabla) ==
    IF fila.AC_EG_Dias \in DOMAIN tabla.dias
    THEN tabla.dias[fila.AC_EG_Dias]
    ELSE [i \in 1..Len(Z_SCORE_COLS[tabla.sistema]) |-> NaN]

\* z_scores_df[col] at one day.
ColumnaZ(tabla, dia, col) ==
    LET cols == Z_SCORE_COLS[tabla.sistema] IN
    tabla.dias[dia][CHOOSE i \in 1..Len(cols) : cols[i] = col]

\* Mutation: the thresholds are taken from the first and the last label.
ConOutliersExtremos(tabla) ==
    LET cols   == Z_SCORE_COLS[tabla.sistema]
        medida == [d \in DOMAIN tabla.dias |->
                      (tabla.dias[d][2] - tabla.dias[d][1]) * 5]
    IN  [sistema |-> tabla.sistema, dias |-> tabla.dias,
         outlier_neg |-> [d \in DOMAIN tabla.dias |-> tabla.dias[d][1] - medida[d]],
         outlier_pos |-> [d \in DOMAIN tabla.dias |-> tabla.dias[d][Len(cols)] + medida[d]]]

\* medida_outlier, and the columns 'outlier_neg' and 'outlier_pos' the function adds to
\* the boundary table it was given.
ConOutliers(tabla) ==
    LET medida_outlier == [d \in DOMAIN tabla.dias |->
                              (ColumnaZ(tabla, d, "des_1") - ColumnaZ(tabla, d, "des_0")) * 5]
    IN  [sistema |-> tabla.sistema, dias |-> tabla.dias,
         outlier_neg |-> [d \in DOMAIN tabla.dias |->
                             ColumnaZ(tabla, d, "des_0") - medida_outlier[d]],
         outlier_pos |-> [d \in DOMAIN tabla.dias |->
                             ColumnaZ(tabla, d, "des_0") + medida_outlier[d]]]

calcular_color_ant_edad(fila, tabla) ==
    calcular_color_ant(fila.valor, LimitesUnidos(fila, tabla),
                       Z_SCORE_COLS[tabla.sistema], COLORES_RANGOS[tabla.sistema])

SinColor == [error |-> "pendiente", color |-> "", etiqueta |-> ""]

TablasZ ==
    UNION {{[sistema |-> s, dias |-> [d \in DiasCurva |-> l]] :
               l \in [1..Len(Z_SCORE_COLS[s]) -> 0..MaxValor]} : s \in Sistemas}

FilasAnt == [AC_EG_Dias : DiasAnt, valor : (0..MaxValor) \cup {NaN}]

(***************************************************************************)
(* The tables procesar_tablas_visualizacion works on.                      *)
(*   pacientes      : label -> [Paciente_ID, Iden_Sexo]                    *)
(*   antropometrias : label -> [Paciente_ID, AC_Num, AC_EG_Dias,           *)
(*                              AC_Peso, AC_Talla, AC_PC]                  *)
(* Paciente_ID is the unique key of the patient table.                     *)
(***************************************************************************)
IdsPacientes == {"p1", "p2"}
Sexos == {1, 2, 3}
EtiquetasPac == {0, 1}
EtiquetasAnt == {1, 2}
NumsAnt == {0, 1}
ValoresAnt == {1, 2}

VarsAnt == {"Peso", "Talla", "PC"}

TablasPacientes ==
    {t \in [EtiquetasPac -> [Paciente_ID : IdsPacientes, Iden_Sexo : Sexos]] :
        \A i, j \in EtiquetasPac : i # j => t[i].Paciente_ID # t[j].Paciente_ID}

FilasAntropometria ==
    [Paciente_ID : IdsPacientes, AC_Num : NumsAnt, AC_EG_Dias : DiasAnt,
     AC_Peso : ValoresAnt, AC_Talla : ValoresAnt, AC_PC : ValoresAnt]

TablasAntropometrias == [EtiquetasAnt -> FilasAntropometria]

\* antropometrias[var] with var = 'AC_' + ant_var
ValorAnt(fila, ant_var) ==
    CASE ant_var = "Peso"  -> fila.AC_Peso
      [] ant_var = "Talla" -> fila.AC_Talla
      [] ant_var = "PC"    -> fila.AC_PC

(***************************************************************************)
(* percentiles['fenton'][sexo][fenton_var]: column '10' by day.  The       *)
(* reference files are data; the table below is the one the model reads.   *)
(***************************************************************************)
Percentiles10 ==
    [ninas |-> [Peso |-> [d \in DiasCurva |-> 2], Talla |-> [d \in DiasCurva |-> 3],
                PC   |-> [d \in DiasCurva |-> 1]],
     ninos |-> [Peso |-> [d \in DiasCurva |-> 2], Talla |-> [d \in DiasCurva |-> 1],
                PC   |-> [d \in DiasCurva |-> 2]]]

\* Mutation: the loop on sex stops after its first iteration.
SexosCurvasSoloNinas == <<[sexo |-> "ninas", id_sexo |-> 2]>>

\* for sexo, id_sexo in [('ninas', 2), ('ninos', 1)]
SexosCurvas == <<[sexo |-> "ninas", id_sexo |-> 2], [sexo |-> "ninos", id_sexo |-> 1]>>

\* ant.join(percentiles['fenton'][sexo][fenton_var].set_index('days')[['10']], on='AC_EG_Dias')
Percentil10Unido(fila, sexo, ant_var) ==
    IF fila.AC_EG_Dias \in DOMAIN Percentiles10[sexo][ant_var]
    THEN Percentiles10[sexo][ant_var][fila.AC_EG_Dias]
    ELSE NaN

\* pacientes[pacientes['Iden_Sexo'] == id_sexo]['Paciente_ID']
PacientesSexo(pac, id_sexo) ==
    {pac[l].Paciente_ID : l \in {k \in DOMAIN pac : pac[k].Iden_Sexo = id_sexo}}

\* Mutation: the rows above the percentile are taken.
FilasSobrePercentil(pac, ant, s, ant_var, ac_num) ==
    {l \in DOMAIN ant :
        /\ ant[l].Paciente_ID \in PacientesSexo(pac, s.id_sexo)
        /\ ant[l].AC_Num = ac_num
        /\ Menor(Percentil10Unido(ant[l], s.sexo, ant_var), ValorAnt(ant[l], ant_var))}

\* The labels of the rows of visit ac_num, of patients of the sex, below the percentile.
FilasBajoPercentil(pac, ant, s, ant_var, ac_num) ==
    {l \in DOMAIN ant :
        /\ ant[l].Paciente_ID \in PacientesSexo(pac, s.id_sexo)
        /\ ant[l].AC_Num = ac_num
        /\ Menor(ValorAnt(ant[l], ant_var), Percentil10Unido(ant[l], s.sexo, ant_var))}

\* Adds the columns cols (a function column -> (label -> BOOLEAN)) to the flag columns.
ConColumnas(band, cols) ==
    [c \in DOMAIN band \cup DOMAIN cols |-> IF c \in DOMAIN cols THEN cols[c] ELSE band[c]]

(***************************************************************************)
(* crear_bandera_rciu: one column RCIU_<var> per growth variable, True for *)
(* the patients whose Paciente_ID is the Paciente_ID of a birth row        *)
(* (AC_Num == 0) below the 10th percentile of the patient's sex.           *)
(***************************************************************************)
VarsAntOrden == <<"Peso", "Talla", "PC">>

VarDeColumna(prefijo, col) == CHOOSE v \in VarsAnt : prefijo \o v = col

\* pacientes_rciu, over both iterations of the loop on sex
PacientesRciu(pac, ant, ant_var) ==
    UNION {{ant[m].Paciente_ID : m \in FilasBajoPercentil(pac, ant, SexosCurvas[k], ant_var, 0)} :
              k \in 1..Len(SexosCurvas)}

\* Mutation: the rows of the first follow-up (AC_Num == 1) are read instead of the birth rows.
ColumnaRciuLlegada(pac, ant, ant_var) ==
    [l \in DOMAIN pac |->
        pac[l].Paciente_ID \in
            UNION {{ant[m].Paciente_ID :
                       m \in FilasBajoPercentil(pac, ant, SexosCurvas[k], ant_var, 1)} :
                      k \in 1..Len(SexosCurvas)}]

\* pacientes[nombre_col] = False; pacientes.loc[pacientes['Paciente_ID'].isin(pacientes_rciu), nombre_col] = True
ColumnaRciu(pac, ant, ant_var) ==
    [l \in DOMAIN pac |-> pac[l].Paciente_ID \in PacientesRciu(pac, ant, ant_var)]

crear_bandera_rciu(pac, ant, band) ==
    ConColumnas(band,
        [c \in {"RCIU_" \o VarsAntOrden[n] : n \in 1..Len(VarsAntOrden)} |->
            ColumnaRciu(pac, ant, VarDeColumna("RCIU_", c))])

(***************************************************************************)
(* crear_bandera_rceu: `return pacientes` is inside the loop on the growth *)
(* variables, so the function returns at the end of the first iteration    *)
(* ('Peso'), after both sexes.  pacientes_rceu holds the index labels of   *)
(* the measurement rows, and is matched against the index labels of the    *)
(* patient table.                                                          *)
(***************************************************************************)
VarsRceuRecorridas == SubSeq(VarsAntOrden, 1, 1)

\* pacientes_rceu = (ant_comp_df[ant_comp_df[var] < ant_comp_df['10']]).index, both sexes
IndicesRceu(pac, ant, ant_var) ==
    UNION {FilasBajoPercentil(pac, ant, SexosCurvas[k], ant_var, 1) : k \in 1..Len(SexosCurvas)}

\* pacientes.loc[pacientes.index.isin(pacientes_rceu), nombre_col] = True
ColumnaRceu(pac, ant, ant_var) ==
    [l \in DOMAIN pac |-> l \in IndicesRceu(pac, ant, ant_var)]

crear_bandera_rceu(pac, ant, band) ==
    ConColumnas(band,
        [c \in {"RCEU_" \o VarsRceuRecorridas[n] : n \in 1..Len(VarsRceuRecorridas)} |->
            ColumnaRceu(pac, ant, VarDeColumna("RCEU_", c))])

(***************************************************************************)
(* filtrar_por_RCIU / filtrar_por_RCEU.                                    *)
(*   variables = [vars  : the list of variables,                           *)
(*                valor : variable -> the requested flag value]            *)
(* df['RCIU_' + var] raises KeyError when the table lacks the column.      *)
(***************************************************************************)
MascaraError(e) == [error |-> e, mascara |-> <<>>]
Mascara(m) == [error |-> "", mascara |-> m]

RECURSIVE FiltrarBandera(_, _, _, _, _, _)
FiltrarBandera(prefijo, etiquetas, band, variables, n, filtro_base) ==
    IF n > Len(variables.vars) THEN Mascara(filtro_base)
    ELSE LET var == variables.vars[n] IN
         IF prefijo \o var \notin DOMAIN band THEN MascaraError("KeyError")
         ELSE FiltrarBandera(prefijo, etiquetas, band, variables, n + 1,
                  [l \in etiquetas |->
                      filtro_base[l] /\ (band[prefijo \o var][l] = variables.valor[var])])

filtrar_por_RCIU(pac, band, variables_rciu) ==
    FiltrarBandera("RCIU_", DOMAIN pac, band, variables_rciu, 1, [l \in DOMAIN pac |-> TRUE])

filtrar_por_RCEU(pac, band, variables_rceu) ==
    FiltrarBandera("RCEU_", DOMAIN pac, band, variables_rceu, 1, [l \in DOMAIN pac |-> TRUE])

ListasVars ==
    {<<>>, <<"Peso">>, <<"Talla">>, <<"PC">>, <<"Peso", "Talla">>, <<"Talla", "Peso">>,
     <<"Peso", "PC">>, <<"Talla", "PC">>, <<"PC", "Talla", "Peso">>, <<"Peso", "Talla", "PC">>}

Rango(seq) == {seq[n] : n \in 1..Len(seq)}

VariablesFiltro ==
    UNION {{[vars |-> lv, valor |-> f] : f \in [Rango(lv) -> BOOLEAN]} : lv \in ListasVars}

SinFiltroPac == [filtro |-> "", variables |-> [vars |-> <<>>, valor |-> <<>>],
                 error |-> "pendiente", mascara |-> <<>>]

FiltroPac(nombre, variables, res) ==
    [filtro |-> nombre, variables |-> variables, error |-> res.error, mascara |-> res.mascara]

(***************************************************************************)
(* The range filters on the patient table (filtros.py).                    *)
(*   pacientes : label -> [Paciente_ID, N_EG_Dias, HD_TotalDiasHospital]   *)
(* A comparison with a missing number is false.                            *)
(***************************************************************************)
MayorIgual(a, b) == a # NaN /\ b # NaN /\ a >= b
MenorIgual(a, b) == a # NaN /\ b # NaN /\ a <= b

filtrar_por_dias_hospitalizacion(df, dias_hospitalizacion) ==
    Mascara([l \in DOMAIN df |->
                /\ MayorIgual(df[l].HD_TotalDiasHospital, dias_hospitalizacion.min)
                /\ MenorIgual(df[l].HD_TotalDiasHospital, dias_hospitalizacion.max)])

\* Mutation: mas_de_40 only lifts the upper end above 40 weeks.
filtrar_por_edad_gestacional_nacimiento_40(df, rango_edad_nacimiento) ==
    LET min_edad == rango_edad_nacimiento.min
        max_edad == rango_edad_nacimiento.max
    IN  Mascara([l \in DOMAIN df |->
                    /\ MayorIgual(df[l].N_EG_Dias, min_edad * 7)
                    /\ \/ MenorIgual(df[l].N_EG_Dias, max_edad * 7)
                       \/ rango_edad_nacimiento.mas_de_40 /\ Menor(40 * 7, df[l].N_EG_Dias)])

filtrar_por_edad_gestacional_nacimiento(df, rango_edad_nacimiento) ==
    LET min_edad == rango_edad_nacimiento.min
        max_edad == rango_edad_nacimiento.max
    IN  Mascara([l \in DOMAIN df |->
                    /\ MayorIgual(df[l].N_EG_Dias, min_edad * 7)
                    /\ IF rango_edad_nacimiento.mas_de_40
                       THEN TRUE
                       ELSE MenorIgual(df[l].N_EG_Dias, max_edad * 7)])

DiasNacimiento == {NaN, 195, 196, 210, 211, 281}
DiasHospital == {NaN, 0, 1, 2, 3}
SemanasNacimiento == {28, 30, 40}

TablasPacientesRangos ==
    {t \in [EtiquetasPac -> [Paciente_ID : IdsPacientes, N_EG_Dias : DiasNacimiento,
                             HD_TotalDiasHospital : DiasHospital]] :
        \A i, j \in EtiquetasPac : i # j => t[i].Paciente_ID # t[j].Paciente_ID}

RangosEdadNacimiento == [min : SemanasNacimiento, max : SemanasNacimiento, mas_de_40 : BOOLEAN]
RangosDiasHospitalizacion == [min : DiasHospital \ {NaN}, max : DiasHospital \ {NaN}]

(***************************************************************************)
(* validar_antropometrias_pacientes: the validation filters, the tables    *)
(* returned and the exclusion report.                                      *)
(*   a filter is a mask, label -> BOOLEAN; a record is eliminated by a     *)
(*   filter when its mask is false; a comparison with NaN is false.        *)
(*   reporte : one entry per filter, in the order written,                 *)
(*     [tabla, nombre, cuenta, lineas], lineas : label -> identity written *)
(***************************************************************************)
Mayor(a, b) == a # NaN /\ b # NaN /\ a > b
notnull(x) == x # NaN

Restringir(df, S) == [l \in S |-> df[l]]

\* reduce(lambda x, y: x & y, filtros)
Reducir(filtros, etiquetas) ==
    [l \in etiquetas |-> \A i \in 1..Len(filtros) : filtros[i][l]]

Filtrar(df, filtros) ==
    Restringir(df, {l \in DOMAIN df : Reducir(filtros, DOMAIN df)[l]})

\* Mutation: a weight equal to the threshold passes.
filtros_ant_peso_500(ant) ==
    << [l \in DOMAIN ant |-> MayorIgual(ant[l].AC_EG_Dias, 171)],
       [l \in DOMAIN ant |-> notnull(ant[l].AC_EG_Dias)],
       [l \in DOMAIN ant |-> notnull(ant[l].AC_Peso)],
       [l \in DOMAIN ant |-> notnull(ant[l].AC_PC)],
       [l \in DOMAIN ant |-> notnull(ant[l].AC_Talla)],
       [l \in DOMAIN ant |-> MayorIgual(ant[l].AC_Peso, 500)],
       [l \in DOMAIN ant |-> Mayor(ant[l].AC_PC, 15)],
       [l \in DOMAIN ant |-> Mayor(ant[l].AC_Talla, 25)] >>

filtros_ant(ant) ==
    << [l \in DOMAIN ant |-> MayorIgual(ant[l].AC_EG_Dias, 171)],
       [l \in DOMAIN ant |-> notnull(ant[l].AC_EG_Dias)],
       [l \in DOMAIN ant |-> notnull(ant[l].AC_Peso)],
       [l \in DOMAIN ant |-> notnull(ant[l].AC_PC)],
       [l \in DOMAIN ant |-> notnull(ant[l].AC_Talla)],
       [l \in DOMAIN ant |-> Mayor(ant[l].AC_Peso, 500)],
       [l \in DOMAIN ant |-> Mayor(ant[l].AC_PC, 15)],
       [l \in DOMAIN ant |-> Mayor(ant[l].AC_Talla, 25)] >>

nombres_filtros_ant ==
    << "edad < 171", "nacimiento nulo", "peso nulo", "pc nulo", "talla nula",
       "peso < 500 gr", "pc < 15 cm", "talla < 25 cm", "no tiene datos paciente" >>

ant_validas(ant) == Filtrar(ant, filtros_ant(ant))

\* Mutation: the patients with a measurement of that number, valid or not.
PacientesConAntCualquiera(ant, ac_num) ==
    {ant[l].Paciente_ID : l \in {k \in DOMAIN ant : ant[k].AC_Num = ac_num}}

\* ant_validas[ant_validas['AC_Num'] == ac_num]['Paciente_ID']
PacientesConAnt(ant, ac_num) ==
    LET validas == ant_validas(ant) IN
    {validas[l].Paciente_ID : l \in {k \in DOMAIN validas : validas[k].AC_Num = ac_num}}

filtros_pac(pac, ant) ==
    << [l \in DOMAIN pac |-> pac[l].Iden_Sexo # 3],
       [l \in DOMAIN pac |-> pac[l].Paciente_ID \in PacientesConAnt(ant, 0)],
       [l \in DOMAIN pac |-> pac[l].Paciente_ID \in PacientesConAnt(ant, 1)] >>

nombres_filtros_pac ==
    << "Sexo no es 3",
       "No tiene antopometria de nacimiento o esta no tiene valores validos",
       "No tiene anrtopometria de llegada o esta no tiene valores validos" >>

pacientes_filtados(pac, ant) == Filtrar(pac, filtros_pac(pac, ant))

tiene_paciente(pac, ant) ==
    LET filtrados == pacientes_filtados(pac, ant) IN
    [l \in DOMAIN ant |->
        ant[l].Paciente_ID \in {filtrados[k].Paciente_ID : k \in DOMAIN filtrados}]

\* Mutation: the report is written from the list as it was before tiene_paciente.
filtros_ant_todos_sin_paciente(pac, ant) == filtros_ant(ant)

\* filtros_ant += [tiene_paciente]
filtros_ant_todos(pac, ant) == Append(filtros_ant(ant), tiene_paciente(pac, ant))

ant_filtradas(pac, ant) == Filtrar(ant, Append(filtros_ant(ant), tiene_paciente(pac, ant)))

\* eliminados = df[~filtro]: its size, and one line per row.
Eliminados(filtro) == {l \in DOMAIN filtro : ~filtro[l]}

EntradaPac(pac, filtro, nombre) ==
    [tabla |-> "pacientes", nombre |-> nombre, cuenta |-> Cardinality(Eliminados(filtro)),
     lineas |-> [l \in Eliminados(filtro) |-> [Paciente_ID |-> pac[l].Paciente_ID]]]

EntradaAnt(ant, filtro, nombre) ==
    [tabla |-> "antropometrias", nombre |-> nombre,
     cuenta |-> Cardinality(Eliminados(filtro)),
     lineas |-> [l \in Eliminados(filtro) |->
                    [AC_Num |-> ant[l].AC_Num, Paciente_ID |-> ant[l].Paciente_ID]]]

\* zip(filtros, nombres) stops at the shorter of the two lists.
Zip(a, b) == IF Len(a) <= Len(b) THEN Len(a) ELSE Len(b)

Reporte(pac, ant) ==
    LET fp == filtros_pac(pac, ant)
        fa == filtros_ant_todos(pac, ant)
    IN  [i \in 1..Zip(fp, nombres_filtros_pac) |->
            EntradaPac(pac, fp[i], nombres_filtros_pac[i])]
        \o [i \in 1..Zip(fa, nombres_filtros_ant) |->
            EntradaAnt(ant, fa[i], nombres_filtros_ant[i])]

validar_antropometrias_pacientes(ant, pac) ==
    [antropometrias |-> ant_filtradas(pac, ant), pacientes |-> pacientes_filtados(pac, ant)]

\* The tables read by leer_tablas_intermedias.
EtiquetasAntLeidas == {0, 1, 2}
MedidasLeidas ==
    { [AC_EG_Dias |-> 259, AC_Peso |-> 3000, AC_PC |-> 33,  AC_Talla |-> 48],
      [AC_EG_Dias |-> 170, AC_Peso |-> 3000, AC_PC |-> 33,  AC_Talla |-> 48],
      [AC_EG_Dias |-> 259, AC_Peso |-> 500,  AC_PC |-> 33,  AC_Talla |-> 48],
      [AC_EG_Dias |-> NaN, AC_Peso |-> 500,  AC_PC |-> NaN, AC_Talla |-> 25],
      [AC_EG_Dias |-> 170, AC_Peso |-> NaN,  AC_PC |-> 15,  AC_Talla |-> NaN] }

FilasAntLeidas ==
    {[Paciente_ID |-> p, AC_Num |-> n, AC_EG_Dias |-> m.AC_EG_Dias, AC_Peso |-> m.AC_Peso,
      AC_PC |-> m.AC_PC, AC_Talla |-> m.AC_Talla] :
        p \in IdsPacientes, n \in NumsAnt, m \in MedidasLeidas}

TablasAntLeidas == [EtiquetasAntLeidas -> FilasAntLeidas]

TablasPacientesLeidas ==
    {t \in [EtiquetasPac -> [Paciente_ID : IdsPacientes, Iden_Sexo : {1, 3}]] :
        \A i, j \in EtiquetasPac : i # j => t[i].Paciente_ID # t[j].Paciente_ID}

(***************************************************************************)
(* leer_datos_curvas (utils.py): one pass of the innermost loop reads the  *)
(* boundary file of (var, sex, curve) and the Fenton percentile file of    *)
(* (var, sex); pd.read_csv raises FileNotFoundError for an absent file,    *)
(* which nothing catches.                                                  *)
(*   lectura = [pos       : the next pass of the loop,                     *)
(*              z_scores, percentiles : the keys filled in the local       *)
(*                          dictionaries, as <<curve, sex, var>>,          *)
(*              estado    : "leyendo", "retornado" or "FileNotFoundError", *)
(*              retorno   : what the caller received]                      *)
(***************************************************************************)
growth_vars == <<"pc", "talla", "peso">>
SexosArchivos == <<"ninos", "ninas">>
CurvasArchivos == <<"fenton", "who">>

\* The passes of the three nested loops, in order.
Pasadas ==
    [n \in 1..(Len(growth_vars) * Len(SexosArchivos) * Len(CurvasArchivos)) |->
        [var   |-> growth_vars[((n - 1) \div (Len(SexosArchivos) * Len(CurvasArchivos))) + 1],
         sex   |-> SexosArchivos[(((n - 1) \div Len(CurvasArchivos)) % Len(SexosArchivos)) + 1],
         curve |-> CurvasArchivos[((n - 1) % Len(CurvasArchivos)) + 1]]]

NombreZScores(var, sex, curve) ==
    "curvas_desviaciones_" \o curve \o "/z_scores_" \o var \o "_" \o sex \o "_" \o curve
        \o ".csv"
NombrePercentiles(var, sex) ==
    "curvas_percentiles_fenton/percentiles_" \o var \o "_" \o sex \o "_fenton.csv"

ArchivosEsperados ==
    {NombreZScores(Pasadas[n].var, Pasadas[n].sex, Pasadas[n].curve) : n \in DOMAIN Pasadas}
    \cup {NombrePercentiles(Pasadas[n].var, Pasadas[n].sex) : n \in DOMAIN Pasadas}

SinRetorno == [z_scores |-> {}, percentiles |-> {}]

LecturaInicial ==
    [pos |-> 1, z_scores |-> {}, percentiles |-> {}, estado |-> "leyendo",
     retorno |-> SinRetorno]

\* Mutation: an absent file is skipped and the loop goes on.
PasadaTolerante(arch, lec) ==
    LET q  == Pasadas[lec.pos]
        z  == IF NombreZScores(q.var, q.sex, q.curve) \in arch
              THEN lec.z_scores \cup {<<q.curve, q.sex, q.var>>} ELSE lec.z_scores
        pe == IF NombrePercentiles(q.var, q.sex) \in arch
              THEN lec.percentiles \cup {<<"fenton", q.sex, q.var>>} ELSE lec.percentiles
    IN  IF lec.pos = Len(Pasadas)
        THEN [lec EXCEPT !.z_scores = z, !.percentiles = pe, !.estado = "retornado",
                         !.retorno = [z_scores |-> z, percentiles |-> pe]]
        ELSE [lec EXCEPT !.pos = @ + 1, !.z_scores = z, !.percentiles = pe]

\* One pass of the loop body; the last pass is followed by the return.
Pasada(arch, lec) ==
    LET q  == Pasadas[lec.pos]
        z  == lec.z_scores \cup {<<q.curve, q.sex, q.var>>}
        pe == lec.percentiles \cup {<<"fenton", q.sex, q.var>>}
    IN  IF NombreZScores(q.var, q.sex, q.curve) \notin arch
        THEN [lec EXCEPT !.estado = "FileNotFoundError"]
        ELSE IF NombrePercentiles(q.var, q.sex) \notin arch
        THEN [lec EXCEPT !.z_scores = z, !.estado = "FileNotFoundError"]
        ELSE IF lec.pos = Len(Pasadas)
        THEN [lec EXCEPT !.z_scores = z, !.percentiles = pe, !.estado = "retornado",
                         !.retorno = [z_scores |-> z, percentiles |-> pe]]
        ELSE [lec EXCEPT !.pos = @ + 1, !.z_scores = z, !.percentiles = pe]

\* The directories the run may find: at most two of the expected files absent.
Directorios ==
    {ArchivosEsperados \ faltan : faltan \in {f \in SUBSET ArchivosEsperados :
                                                 Cardinality(f) <= 2}}

(***************************************************************************)
(* remover_nan (procesar_tablas_intermedias.py) and the global nan_info.   *)
(*   data_frame : [columns : the column names in order,                    *)
(*                 nulos   : id -> the columns in which the row is null]   *)
(*   nan_info   : table name -> (column -> the ids recorded)               *)
(*   llamadas   : for each call made, its table name, the ids it returned  *)
(*                and, for each row of its frame that had a null, the      *)
(*                first column in which the row was null                   *)
(* The calls below are the six calls procesar_tablas_intermedias makes, in *)
(* its order; the fourth and the fifth use the same table name.            *)
(***************************************************************************)
IdsFilas == {"a", "b"}

LlamadasPrograma ==
    << [nombre_df |-> "ExamenRecienNacido", columns |-> <<"ERN_Talla", "ERN_PC">>],
       [nombre_df |-> "HospitalizacionDiagnostico", columns |-> <<"HD_TotalDiasHospital">>],
       [nombre_df |-> "Antropometria",
        columns |-> <<"V_id", "AN_timestamp", "AN_Talla", "AN_Peso", "AN_PC">>],
       [nombre_df |-> "Identificacion",
        columns |-> <<"Iden_FechaParto", "Iden_PesoParto", "Iden_Sexo", "Iden_Sede">>],
       [nombre_df |-> "Identificacion", columns |-> <<"Iden_Codigo", "Iden_Sede">>],
       [nombre_df |-> "EIP_EG", columns |-> <<"EIP_EG_DiasTotales", "EIP_EG_Selecciono">>] >>

\* The frames a call may receive: two rows, of which at most one has nulls, in any of
\* the columns.
DataFrames(columns) ==
    {[columns |-> columns, nulos |-> f] :
        f \in {g \in [IdsFilas -> SUBSET Rango(columns)] :
                  \A i, j \in IdsFilas : g[i] # {} /\ g[j] # {} => i = j}}

\* The first column, in column order, in which the row is null.
PrimeraColumnaNula(df, id) ==
    df.columns[CHOOSE n \in 1..Len(df.columns) :
                  /\ df.columns[n] \in df.nulos[id]
                  /\ \A m \in 1..(n - 1) : df.columns[m] \notin df.nulos[id]]

\* For each row of the frame that has a null, the first column in which it is null.
PrimerasNulas(df) ==
    [id \in {i \in DOMAIN df.nulos : df.nulos[i] # {}} |-> PrimeraColumnaNula(df, id)]

\* d[k] = v
Asignar(d, k, v) == [x \in DOMAIN d \cup {k} |-> IF x = k THEN v ELSE d[x]]

\* if nombre_df not in nan_info: nan_info[nombre_df] = {}
ConTabla(info, nombre_df) ==
    IF nombre_df \in DOMAIN info THEN info ELSE Asignar(info, nombre_df, <<>>)

\* The loop on data_frame.columns from column n on: filas are the ids still in the
\* frame; the result is [filas, info].
RECURSIVE RemoverColumnas(_, _, _, _, _)
RemoverColumnas(df, nombre_df, n, filas, info) ==
    IF n > Len(df.columns) THEN [filas |-> filas, info |-> info]
    ELSE LET col         == df.columns[n]
             nan_indices == {i \in filas : col \in df.nulos[i]}
         IN  IF nan_indices # {}
             THEN RemoverColumnas(df, nombre_df, n + 1, filas \ nan_indices,
                      Asignar(info, nombre_df, Asignar(info[nombre_df], col, nan_indices)))
             ELSE RemoverColumnas(df, nombre_df, n + 1, filas, info)

remover_nan(df, nombre_df, info) ==
    RemoverColumnas(df, nombre_df, 1, DOMAIN df.nulos, ConTabla(info, nombre_df))

(***************************************************************************)
(* calcular_color_antropometrias and combinar_rangos_antropometrias.       *)
(*   z_scores         : system -> sex -> variable -> boundary table        *)
(*   ant_interpoladas : label -> [Paciente_ID, AC_EG_Dias, AC_Peso,        *)
(*                                AC_Talla, AC_PC], labels unique          *)
(*   ant_rangos       : curve_var -> sex -> system -> (label -> result)    *)
(* The table combinar_rangos_antropometrias returns is label -> the rows   *)
(* the join yields for that label, in order.                               *)
(***************************************************************************)
\* NaN in a column of strings.
NaNTexto == "NaN"

\* variables_curvas_ant.items()
variables_curvas_ant ==
    << [curve_var |-> "AC_Peso",  z_score_var |-> "peso"],
       [curve_var |-> "AC_Talla", z_score_var |-> "talla"],
       [curve_var |-> "AC_PC",    z_score_var |-> "pc"] >>

CurveVars == {variables_curvas_ant[n].curve_var : n \in 1..Len(variables_curvas_ant)}
ZScoreVars == {variables_curvas_ant[n].z_score_var : n \in 1..Len(variables_curvas_ant)}
NombresSexos == {SexosCurvas[n].sexo : n \in 1..Len(SexosCurvas)}

\* The reference z-score files are data; the tables below are the ones the model reads:
\* every table has a row for each day, and its boundaries rise by one from a first value
\* that depends on the system and the sex.
DiasTablasZ == {273, 280, 287}

Escalera(sistema, desde) == [i \in 1..Len(Z_SCORE_COLS[sistema]) |-> desde + i - 1]

ZScoresLeidos ==
    [sistema \in Sistemas |->
        [sexo \in NombresSexos |->
            [z_score_var \in ZScoreVars |->
                [sistema |-> sistema,
                 dias |-> [d \in DiasTablasZ |->
                              Escalera(sistema, (IF sistema = "who" THEN 2 ELSE 0)
                                                + (IF sexo = "ninos" THEN 1 ELSE 0))]]]]]

\* antropometrias['AC_Peso'] = antropometrias['AC_Peso']/1000, on weights that are whole
\* kilograms
PesoEnKg(ant) ==
    [l \in DOMAIN ant |->
        [c \in DOMAIN ant[l] |->
            IF c = "AC_Peso" /\ ant[l][c] # NaN THEN ant[l][c] \div 1000 ELSE ant[l][c]]]

\* Mutation: the WHO tables also take the rows of day 280.
age_filter_desde_280(datos_percentiles, dia) ==
    IF datos_percentiles = "fenton" THEN MenorIgual(dia, 280) ELSE MayorIgual(dia, 280)

age_filter(datos_percentiles, dia) ==
    IF datos_percentiles = "fenton" THEN MenorIgual(dia, 280) ELSE Mayor(dia, 280)

\* antropometrias['Paciente_ID'].isin(sex_patient_ids)
sex_filter(pac, fila, sex_id) == fila.Paciente_ID \in PacientesSexo(pac, sex_id)

\* antropometrias[sex_filter & age_filter][[curve_var, 'AC_EG_Dias']], classified row by
\* row by calcular_color_ant_edad against a copy of the table; a group without rows gives
\* an empty result
ColoresGrupo(z, pac, ant, v, s, datos_percentiles) ==
    LET filas_ant == {l \in DOMAIN ant :
                         /\ sex_filter(pac, ant[l], s.id_sexo)
                         /\ age_filter(datos_percentiles, ant[l].AC_EG_Dias)}
        z_scores_copia == z[datos_percentiles][s.sexo][v.z_score_var]
    IN  [l \in filas_ant |->
            calcular_color_ant_edad([AC_EG_Dias |-> ant[l].AC_EG_Dias,
                                     valor |-> ant[l][v.curve_var]],
                                    ConOutliers(z_scores_copia))]

\* The result is the table it was given, as it leaves it, and the dictionary it returns.
calcular_color_antropometrias(z, pac, ant) ==
    LET kg == PesoEnKg(ant) IN
    [antropometrias |-> kg,
     ant_rangos |->
        [curve_var \in CurveVars |->
            LET v == CHOOSE x \in Rango(variables_curvas_ant) : x.curve_var = curve_var IN
            [sexo \in NombresSexos |->
                LET s == CHOOSE x \in Rango(SexosCurvas) : x.sexo = sexo IN
                [datos_percentiles \in Sistemas |->
                    ColoresGrupo(z, pac, kg, v, s, datos_percentiles)]]]]

\* The four groups in the order combinar_rangos_antropometrias concatenates them.
GruposOrden ==
    << <<"ninas", "fenton">>, <<"ninas", "who">>, <<"ninos", "fenton">>, <<"ninos", "who">> >>

\* var_ants[curve_var] restricted to one label: the rows of pd.concat(ants) with that
\* label, in order, each row <<color, min>>.
RECURSIVE VarAntsDe(_, _, _, _)
VarAntsDe(rangos, curve_var, l, n) ==
    IF n > Len(GruposOrden) THEN <<>>
    ELSE LET resultados == rangos[curve_var][GruposOrden[n][1]][GruposOrden[n][2]]
             resto      == VarAntsDe(rangos, curve_var, l, n + 1)
         IN  IF l \in DOMAIN resultados
             THEN <<[color |-> resultados[l].color, min |-> resultados[l].etiqueta]>> \o resto
             ELSE resto

SinResultado == [color |-> NaNTexto, min |-> NaNTexto]

\* One row of ant_interpoladas.join(data).
FilaUnida(fila, peso, talla, pc) ==
    [c \in DOMAIN fila \cup {"AC_Peso_color", "AC_Peso_min", "AC_Talla_color",
                             "AC_Talla_min", "AC_PC_color", "AC_PC_min"} |->
        CASE c = "AC_Peso_color"  -> peso.color
          [] c = "AC_Peso_min"    -> peso.min
          [] c = "AC_Talla_color" -> talla.color
          [] c = "AC_Talla_min"   -> talla.min
          [] c = "AC_PC_color"    -> pc.color
          [] c = "AC_PC_min"      -> pc.min
          [] OTHER                -> fila[c]]

\* The three var_ants have the same index, so data has, for a label, the n-th row of each
\* side by side; the join gives one row for each of them, or one row of NaN when data
\* has none.
combinar_rangos_antropometrias(rangos, ant) ==
    [l \in DOMAIN ant |->
        LET peso  == VarAntsDe(rangos, "AC_Peso", l, 1)
            talla == VarAntsDe(rangos, "AC_Talla", l, 1)
            pc    == VarAntsDe(rangos, "AC_PC", l, 1)
        IN  IF Len(peso) = 0
            THEN <<FilaUnida(ant[l], SinResultado, SinResultado, SinResultado)>>
            ELSE [n \in 1..Len(peso) |-> FilaUnida(ant[l], peso[n], talla[n], pc[n])]]

\* The interpolated tables the model classifies: two rows, on either side of day 280 and
\* on it, of patients in the patient table or not.
IdsClasificar == IdsPacientes \cup {"p3"}

FilasPorClasificar ==
    [Paciente_ID : IdsClasificar, AC_EG_Dias : DiasTablasZ,
     AC_Peso : {1000, 3000}, AC_Talla : {NaN, 2}, AC_PC : {2}]

TablasPorClasificar == [{0, 1} -> FilasPorClasificar]

(***************************************************************************)
(* Exact arithmetic for means and interpolated values: a number is         *)
(* <<numerator, denominator>> in lowest terms, denominator > 0; NaNF, the  *)
(* missing number of a reindexed table, has denominator 0.                 *)
(***************************************************************************)
RECURSIVE Mcd(_, _)
Mcd(a, b) == IF b = 0 THEN a ELSE Mcd(b, a % b)

Abs(n) == IF n < 0 THEN -n ELSE n

Frac(n, d) ==
    LET s == IF d < 0 THEN -1 ELSE 1
        g == Mcd(Abs(n), Abs(d))
    IN  <<(s * n) \div g, (s * d) \div g>>

NaNF == <<0, 0>>

FSuma(x, y) == Frac(x[1] * y[2] + y[1] * x[2], x[2] * y[2])
FResta(x, y) == Frac(x[1] * y[2] - y[1] * x[2], x[2] * y[2])
FEscala(x, n, d) == Frac(x[1] * n, x[2] * d)

(***************************************************************************)
(* interpolar_antropometrias.                                              *)
(*   input table : label -> [Paciente_ID, AC_EG_Dias, AC_Peso, AC_Talla,   *)
(*                           AC_PC]                                        *)
(*   result      : the rows of df_interpolado, in order (sorted by         *)
(*                 Paciente_ID and AC_EG_Dias)                             *)
(***************************************************************************)
MaxSemana == 4

ColsInterp == {"AC_Peso", "AC_PC", "AC_Talla"}

\* The order of the Paciente_ID values (groupby and sort_values sort by it).
OrdenPacientes == <<"p1", "p2">>

EtiquetasVisita == {0, 1, 2}
DiasVisita == {d \in 0..(7 * MaxSemana + 6) : d % 7 \in {0, 6}}
MedidasVisita ==
    {[AC_Peso |-> 3000, AC_Talla |-> 48, AC_PC |-> 35],
     [AC_Peso |-> 4000, AC_Talla |-> 52, AC_PC |-> 33]}

FilasVisita ==
    {[Paciente_ID |-> p, AC_EG_Dias |-> d,
      AC_Peso |-> m.AC_Peso, AC_Talla |-> m.AC_Talla, AC_PC |-> m.AC_PC] :
        p \in IdsPacientes, d \in DiasVisita, m \in MedidasVisita}

TablasVisitas == [EtiquetasVisita -> FilasVisita]

\* The validated table with its column AC_Num (the number of the visit, 0 at birth);
\* a visit may fall in the week of the birth.
DiasVisitaNum == {0, 6, 7, 21}

FilasVisitaNum ==
    {[Paciente_ID |-> p, AC_Num |-> n, AC_EG_Dias |-> d,
      AC_Peso |-> m.AC_Peso, AC_Talla |-> m.AC_Talla, AC_PC |-> m.AC_PC] :
        p \in IdsPacientes, n \in NumsAnt, d \in DiasVisitaNum, m \in MedidasVisita}

TablasVisitasNum == [EtiquetasVisita -> FilasVisitaNum]

\* (antropometrias['AC_EG_Dias'] // 7).astype('int')
Semana(dias) == dias \div 7

\* antropometrias['Semana'] = ...: the column is added to the table received.
ConSemana(ant) ==
    [l \in DOMAIN ant |->
        [c \in DOMAIN ant[l] \cup {"Semana"} |->
            IF c = "Semana" THEN Semana(ant[l].AC_EG_Dias) ELSE ant[l][c]]]

\* The groups of groupby(['Paciente_ID', 'Semana']).
Grupos(ant) == {<<ant[l].Paciente_ID, ant[l].Semana>> : l \in DOMAIN ant}
FilasGrupo(ant, g) == {l \in DOMAIN ant : <<ant[l].Paciente_ID, ant[l].Semana>> = g}

RECURSIVE SumaCol(_, _, _)
SumaCol(ant, filas, col) ==
    IF filas = {} THEN 0
    ELSE LET l == CHOOSE x \in filas : TRUE
         IN  ant[l][col] + SumaCol(ant, filas \ {l}, col)

\* .mean() of one group
Promedio(ant, g, col) ==
    Frac(SumaCol(ant, FilasGrupo(ant, g), col), Cardinality(FilasGrupo(ant, g)))

\* ant_promedio_semanas: (Paciente_ID, Semana) -> the means of the three columns
ant_promedio_semanas(ant) ==
    [g \in Grupos(ant) |-> [col \in ColsInterp |-> Promedio(ant, g, col)]]

Minimo(S) == CHOOSE x \in S : \A y \in S : x <= y
Maximo(S) == CHOOSE x \in S : \A y \in S : x >= y

\* Mutation: a gap is filled with the last value before it (method='pad').
InterpolarPad(y) ==
    [i \in DOMAIN y |->
        IF y[i] # NaNF THEN y[i]
        ELSE LET antes == {a \in DOMAIN y : a < i /\ y[a] # NaNF}
             IN  IF antes = {} THEN NaNF ELSE y[Maximo(antes)]]

\* .interpolate(method='linear') of one column: the rows are equally spaced; a gap between
\* two values is on the line through them, a gap after the last value repeats it, a gap
\* before the first value stays missing.
Interpolar(y) ==
    [i \in DOMAIN y |->
        IF y[i] # NaNF THEN y[i]
        ELSE LET antes   == {a \in DOMAIN y : a < i /\ y[a] # NaNF}
                 despues == {b \in DOMAIN y : b > i /\ y[b] # NaNF}
             IN  IF antes = {} THEN NaNF
                 ELSE IF despues = {} THEN y[Maximo(antes)]
                 ELSE LET a == Maximo(antes)
                          b == Minimo(despues)
                      IN  FSuma(y[a], FEscala(FResta(y[b], y[a]), i - a, b - a))]

\* Mutation: range(semana_min, semana_max), the last week left out.
SemanasRangoCorto(semana_min, semana_max) ==
    [n \in 1..(semana_max - semana_min) |-> semana_min + n - 1]

\* range(semana_min, semana_max + 1)
SemanasRango(semana_min, semana_max) ==
    [n \in 1..(semana_max + 1 - semana_min) |-> semana_min + n - 1]

\* interpolar_antropometrias_paciente: the group of one patient, reindexed on every week
\* from its first to its last and interpolated.  The result is [Semana, col -> values].
interpolar_antropometrias_paciente(prom, id_paciente) ==
    LET semanas    == {g[2] : g \in {h \in DOMAIN prom : h[1] = id_paciente}}
        idx        == SemanasRango(Minimo(semanas), Maximo(semanas))
        reindex(col) == [n \in DOMAIN idx |->
                            IF <<id_paciente, idx[n]>> \in DOMAIN prom
                            THEN prom[<<id_paciente, idx[n]>>][col]
                            ELSE NaNF]
    IN  [Semana |-> idx, valores |-> [col \in ColsInterp |-> Interpolar(reindex(col))]]

\* The rows of one patient in df_interpolado:
\* AC_EG_Dias = Semana * 7, AC_Num = groupby('Paciente_ID').cumcount() after the sort.
FilasInterpoladas(prom, id_paciente) ==
    LET ip == interpolar_antropometrias_paciente(prom, id_paciente)
    IN  [n \in DOMAIN ip.Semana |->
            [Paciente_ID |-> id_paciente, Semana |-> ip.Semana[n],
             AC_Peso |-> ip.valores["AC_Peso"][n], AC_PC |-> ip.valores["AC_PC"][n],
             AC_Talla |-> ip.valores["AC_Talla"][n],
             AC_EG_Dias |-> ip.Semana[n] * 7, AC_Num |-> n - 1]]

\* pd.concat over the groups of groupby(level=0), in the order of Paciente_ID.
RECURSIVE Concatenar(_, _)
Concatenar(prom, n) ==
    IF n > Len(OrdenPacientes) THEN <<>>
    ELSE (IF \E g \in DOMAIN prom : g[1] = OrdenPacientes[n]
          THEN FilasInterpoladas(prom, OrdenPacientes[n])
          ELSE <<>>) \o Concatenar(prom, n + 1)

interpolar_antropometrias(ant) == Concatenar(ant_promedio_semanas(ConSemana(ant)), 1)

(***************************************************************************)
(* The measurement filters of filtros.py, on the classified table          *)
(* (combinar_rangos_antropometrias joins the columns <var>_color and       *)
(* <var>_min to the interpolated table; there is no column <var>_max).     *)
(*   table : label -> [AC_Num, AC_Peso_min, AC_Talla_min]                  *)
(* A <var>_min cell holds a label of Z_SCORE_COLS, 'outlier_pos', None     *)
(* (below the lowest curve) or, in tables labelled elsewhere,              *)
(* 'outlier_neg'.                                                          *)
(***************************************************************************)
EtiquetasFenton == Rango(Z_SCORE_COLS["fenton"])
EtiquetasPesoMin == EtiquetasFenton \cup {None, "outlier_neg", "outlier_pos"}
EtiquetasTallaMin == {None, "des_0", "outlier_pos"}
EtiquetasRangos == {0, 1}

TablasRangos ==
    [EtiquetasRangos ->
        [AC_Num : NumsAnt, AC_Peso_min : EtiquetasPesoMin, AC_Talla_min : EtiquetasTallaMin]]

Columnas(df) == UNION {DOMAIN df[l] : l \in DOMAIN df}

\* `not x` of a filter parameter: only None and the empty string are false.
EsFalso(x) == x = None \/ x = ""

\* etiquetas.index(x), from 0
Indice(etiquetas, x) == (CHOOSE i \in 1..Len(etiquetas) : etiquetas[i] = x) - 1

\* etiquetas[desde:hasta], from 0, hasta excluded
Rebanada(etiquetas, desde, hasta) == SubSeq(etiquetas, desde + 1, hasta)

\* Mutation: etiquetas[indice_min:indice_max], the label of the upper cut left out.
EtiquetasRangoSinUltima(etiquetas, indice_min, indice_max) ==
    Rebanada(etiquetas, indice_min, indice_max)

\* etiquetas_rango = etiquetas[indice_min:indice_max + 1]
EtiquetasRango(etiquetas, indice_min, indice_max) ==
    Rebanada(etiquetas, indice_min, indice_max + 1)

(***************************************************************************)
(* filtrar_por_desviacion_estandar.  rango_ant = [min, max].               *)
(* With a false min or max the code appends a list ([None, 'outlier_neg']  *)
(* or ['outlier_pos']) as one element of etiquetas_rango, and isin() of a  *)
(* list that holds a list raises TypeError (a list is not hashable).       *)
(***************************************************************************)
filtrar_por_desviacion_estandar(df, rango_ant, var_ant) ==
    LET etiquetas  == Z_SCORE_COLS["fenton"]
        indice_min == IF rango_ant.min \in Rango(etiquetas)
                      THEN Indice(etiquetas, rango_ant.min) ELSE 0
        indice_max == IF rango_ant.max \in Rango(etiquetas)
                      THEN Indice(etiquetas, rango_ant.max) ELSE Len(etiquetas) - 1
        etiquetas_rango == EtiquetasRango(etiquetas, indice_min, indice_max)
        indices_filtro  == {l \in DOMAIN df :
                               df[l].AC_Num = 0 /\ df[l][var_ant] \in Rango(etiquetas_rango)}
    IN  IF var_ant \notin Columnas(df) \/ "AC_Num" \notin Columnas(df)
        THEN MascaraError("KeyError")
        ELSE IF EsFalso(rango_ant.min) \/ EsFalso(rango_ant.max)
        THEN MascaraError("TypeError")
        ELSE Mascara([l \in DOMAIN df |-> l \in indices_filtro])

CortesMin == EtiquetasFenton \cup {None, "nomin", "none"}
CortesMax == EtiquetasFenton \cup {None, "nomax", "none"}
RangosAnt == [min : CortesMin, max : CortesMax]

(***************************************************************************)
(* filtrar_outliers.  variables_outliers = [vars, rangos].                 *)
(* `filtro_base = filtro_base & filtro` is after the loop on rangos, so    *)
(* only the filter of the last rango is applied; with no rango, filtro is  *)
(* not bound.                                                              *)
(***************************************************************************)
\* The loop on rangos for one variable: the last filtro assigned, or the error raised.
RECURSIVE FiltroRangos(_, _, _, _, _)
FiltroRangos(df, var, rangos, n, filtro) ==
    IF n > Len(rangos) THEN filtro
    ELSE LET col == IF rangos[n] = "outlier_neg" THEN var \o "_max" ELSE var \o "_min"
             ref == IF rangos[n] = "outlier_neg" THEN "outlier_neg" ELSE "outlier_pos"
         IN  IF col \notin Columnas(df) THEN MascaraError("KeyError")
             ELSE FiltroRangos(df, var, rangos, n + 1,
                               Mascara([l \in DOMAIN df |-> df[l][col] # ref]))

RECURSIVE FiltrarOutliers(_, _, _, _)
FiltrarOutliers(df, variables_outliers, n, filtro_base) ==
    IF n > Len(variables_outliers.vars) THEN Mascara(filtro_base)
    ELSE LET filtro == FiltroRangos(df, variables_outliers.vars[n],
                                    variables_outliers.rangos, 1,
                                    MascaraError("UnboundLocalError"))
         IN  IF filtro.error # "" THEN filtro
             ELSE FiltrarOutliers(df, variables_outliers, n + 1,
                      [l \in DOMAIN df |-> filtro_base[l] /\ filtro.mascara[l]])

filtrar_outliers(df, variables_outliers) ==
    FiltrarOutliers(df, variables_outliers, 1, [l \in DOMAIN df |-> TRUE])

VariablesOutliers ==
    [vars   : {<<>>, <<"AC_Peso">>, <<"AC_Talla">>, <<"AC_Peso", "AC_Talla">>,
               <<"AC_Talla", "AC_Peso">>},
     rangos : {<<>>, <<"outlier_neg">>, <<"outlier_pos">>, <<"outlier_neg", "outlier_pos">>,
               <<"outlier_pos", "outlier_neg">>}]

SinFiltroAnt == [filtro |-> "", args |-> <<>>, error |-> "pendiente", mascara |-> <<>>]

FiltroAnt(nombre, args, res) ==
    [filtro |-> nombre, args |-> args, error |-> res.error, mascara |-> res.mascara]

(***************************************************************************)
(* Specifications.  Each one starts from the inputs of one part of the     *)
(* program, the other parts at rest.                                       *)
(***************************************************************************)
varsColor == <<fila_ant, z_scores_df, colores>>
varsBanderas == <<pacientes, antropometrias, banderas, fase, filtro_pac>>
varsInterp == <<ant_semanal, df_interpolado>>
varsFiltros == <<df_rangos, filtro_ant>>
varsValidar == <<validados, reporte>>
varsCurvas == <<archivos, lectura>>
varsNan == <<nan_info, llamadas>>
varsClasificar == <<ant_interpoladas, ant_rangos, ant_interpoladas_rangos>>

ReposoColor == fila_ant = <<>> /\ z_scores_df = <<>> /\ colores = SinColor
ReposoBanderas ==
    /\ pacientes = <<>> /\ antropometrias = <<>> /\ banderas = <<>>
    /\ fase = "reposo" /\ filtro_pac = SinFiltroPac
ReposoInterp == ant_semanal = <<>> /\ df_interpolado = <<>>
ReposoFiltros == df_rangos = <<>> /\ filtro_ant = SinFiltroAnt
ReposoValidar == validados = <<>> /\ reporte = <<>>
ReposoCurvas == archivos = {} /\ lectura = <<>>
ReposoNan == nan_info = <<>> /\ llamadas = <<>>
ReposoClasificar ==
    ant_interpoladas = <<>> /\ ant_rangos = <<>> /\ ant_interpoladas_rangos = <<>>

\* ---- classification of one row against one boundary table
InitColor ==
    /\ fila_ant \in FilasAnt
    /\ z_scores_df \in TablasZ
    /\ colores = SinColor
    /\ ReposoBanderas /\ ReposoInterp /\ ReposoFiltros /\ ReposoValidar /\ ReposoCurvas /\ ReposoNan /\ ReposoClasificar

CalcularColorAntEdad ==
    /\ colores = SinColor
    /\ fila_ant # <<>>
    /\ z_scores_df' = ConOutliers(z_scores_df)
    /\ colores' = calcular_color_ant_edad(fila_ant, ConOutliers(z_scores_df))
    /\ UNCHANGED <<fila_ant, varsBanderas, varsInterp, varsFiltros, varsValidar, varsCurvas, varsNan, varsClasificar>>

NextColor == CalcularColorAntEdad

SpecColor == InitColor /\ [][NextColor]_vars

\* ---- procesar_tablas_visualizacion: the flags of the validated tables, then the
\* ---- patient filters on the saved patient table
Init ==
    /\ pacientes \in TablasPacientes
    /\ antropometrias \in TablasAntropometrias
    /\ banderas = <<>>
    /\ fase = "validado"
    /\ filtro_pac = SinFiltroPac
    /\ ReposoColor /\ ReposoInterp /\ ReposoFiltros /\ ReposoValidar /\ ReposoCurvas /\ ReposoNan /\ ReposoClasificar

CrearBanderaRciu ==
    /\ fase = "validado"
    /\ banderas' = crear_bandera_rciu(pacientes, antropometrias, banderas)
    /\ fase' = "rciu"
    /\ UNCHANGED <<pacientes, antropometrias, filtro_pac, varsColor, varsInterp, varsFiltros, varsValidar, varsCurvas, varsNan, varsClasificar>>

CrearBanderaRceu ==
    /\ fase = "rciu"
    /\ banderas' = crear_bandera_rceu(pacientes, antropometrias, banderas)
    /\ fase' = "rceu"
    /\ UNCHANGED <<pacientes, antropometrias, filtro_pac, varsColor, varsInterp, varsFiltros, varsValidar, varsCurvas, varsNan, varsClasificar>>

\* pacientes.to_pickle("pacientes_banderas.pkl"): the patient filters read the saved
\* patient table; the measurement table is not part of it.
GuardarPacientes ==
    /\ fase = "rceu"
    /\ fase' = "guardado"
    /\ antropometrias' = <<>>
    /\ UNCHANGED <<pacientes, banderas, filtro_pac, varsColor, varsInterp, varsFiltros, varsValidar, varsCurvas, varsNan, varsClasificar>>

FiltrarPorRCIU ==
    /\ fase = "guardado"
    /\ filtro_pac = SinFiltroPac
    /\ \E variables_rciu \in VariablesFiltro :
          filtro_pac' = FiltroPac("RCIU", variables_rciu,
                                  filtrar_por_RCIU(pacientes, banderas, variables_rciu))
    /\ UNCHANGED <<pacientes, antropometrias, banderas, fase, varsColor, varsInterp, varsFiltros, varsValidar, varsCurvas, varsNan, varsClasificar>>

FiltrarPorRCEU ==
    /\ fase = "guardado"
    /\ filtro_pac = SinFiltroPac
    /\ \E variables_rceu \in VariablesFiltro :
          filtro_pac' = FiltroPac("RCEU", variables_rceu,
                                  filtrar_por_RCEU(pacientes, banderas, variables_rceu))
    /\ UNCHANGED <<pacientes, antropometrias, banderas, fase, varsColor, varsInterp, varsFiltros, varsValidar, varsCurvas, varsNan, varsClasificar>>

Next ==
    \/ CrearBanderaRciu
    \/ CrearBanderaRceu
    \/ GuardarPacientes
    \/ FiltrarPorRCIU
    \/ FiltrarPorRCEU

Spec == Init /\ [][Next]_vars

\* ---- interpolar_antropometrias on a table of visits
InitInterp ==
    /\ ant_semanal \in TablasVisitas
    /\ df_interpolado = <<>>
    /\ ReposoColor /\ ReposoBanderas /\ ReposoFiltros /\ ReposoValidar /\ ReposoCurvas /\ ReposoNan /\ ReposoClasificar

InterpolarAntropometrias ==
    /\ ant_semanal # <<>>
    /\ df_interpolado = <<>>
    /\ df_interpolado' = interpolar_antropometrias(ant_semanal)
    /\ ant_semanal' = ConSemana(ant_semanal)
    /\ UNCHANGED <<varsColor, varsBanderas, varsFiltros, varsValidar, varsCurvas, varsNan, varsClasificar>>

NextInterp == InterpolarAntropometrias

SpecInterp == InitInterp /\ [][NextInterp]_vars

\* ---- interpolar_antropometrias on the validated table, AC_Num included
InitNacimiento ==
    /\ ant_semanal \in TablasVisitasNum
    /\ df_interpolado = <<>>
    /\ ReposoColor /\ ReposoBanderas /\ ReposoFiltros /\ ReposoValidar /\ ReposoCurvas /\ ReposoNan /\ ReposoClasificar

NextNacimiento == InterpolarAntropometrias

SpecNacimiento == InitNacimiento /\ [][NextNacimiento]_vars

\* ---- the measurement filters on a classified table
InitFiltros ==
    /\ df_rangos \in TablasRangos
    /\ filtro_ant = SinFiltroAnt
    /\ ReposoColor /\ ReposoBanderas /\ ReposoInterp /\ ReposoValidar /\ ReposoCurvas /\ ReposoNan /\ ReposoClasificar

FiltrarPorDesviacionEstandar ==
    /\ df_rangos # <<>>
    /\ filtro_ant = SinFiltroAnt
    /\ \E rango_ant \in RangosAnt :
          filtro_ant' = FiltroAnt("desviacion_estandar", rango_ant,
                            filtrar_por_desviacion_estandar(df_rangos, rango_ant, "AC_Peso_min"))
    /\ UNCHANGED <<df_rangos, varsColor, varsBanderas, varsInterp, varsValidar, varsCurvas, varsNan, varsClasificar>>

FiltrarOutliersAnt ==
    /\ df_rangos # <<>>
    /\ filtro_ant = SinFiltroAnt
    /\ \E variables_outliers \in VariablesOutliers :
          filtro_ant' = FiltroAnt("outliers", variables_outliers,
                                  filtrar_outliers(df_rangos, variables_outliers))
    /\ UNCHANGED <<df_rangos, varsColor, varsBanderas, varsInterp, varsValidar, varsCurvas, varsNan, varsClasificar>>

NextFiltros == FiltrarPorDesviacionEstandar \/ FiltrarOutliersAnt

SpecFiltros == InitFiltros /\ [][NextFiltros]_vars
\* ---- the range filters on the patient table
InitRangos ==
    /\ pacientes \in TablasPacientesRangos
    /\ antropometrias = <<>> /\ banderas = <<>>
    /\ fase = "guardado"
    /\ filtro_pac = SinFiltroPac
    /\ ReposoColor /\ ReposoInterp /\ ReposoFiltros /\ ReposoValidar /\ ReposoCurvas /\ ReposoNan /\ ReposoClasificar

FiltrarPorEdadGestacionalNacimiento ==
    /\ filtro_pac = SinFiltroPac
    /\ pacientes # <<>>
    /\ \E rango_edad_nacimiento \in RangosEdadNacimiento :
          filtro_pac' = FiltroPac("edad_gestacional_nacimiento", rango_edad_nacimiento,
                            filtrar_por_edad_gestacional_nacimiento(pacientes,
                                                                    rango_edad_nacimiento))
    /\ UNCHANGED <<pacientes, antropometrias, banderas, fase, varsColor, varsInterp, varsFiltros, varsValidar, varsCurvas, varsNan, varsClasificar>>

FiltrarPorDiasHospitalizacion ==
    /\ filtro_pac = SinFiltroPac
    /\ pacientes # <<>>
    /\ \E dias_hospitalizacion \in RangosDiasHospitalizacion :
          filtro_pac' = FiltroPac("dias_hospitalizacion", dias_hospitalizacion,
                            filtrar_por_dias_hospitalizacion(pacientes, dias_hospitalizacion))
    /\ UNCHANGED <<pacientes, antropometrias, banderas, fase, varsColor, varsInterp, varsFiltros, varsValidar, varsCurvas, varsNan, varsClasificar>>

NextRangos == FiltrarPorEdadGestacionalNacimiento \/ FiltrarPorDiasHospitalizacion

SpecRangos == InitRangos /\ [][NextRangos]_vars

\* ---- procesar_tablas_visualizacion: validation of the tables read
InitValidar ==
    /\ pacientes \in TablasPacientesLeidas
    /\ antropometrias \in TablasAntLeidas
    /\ banderas = <<>>
    /\ fase = "leido"
    /\ filtro_pac = SinFiltroPac
    /\ ReposoValidar
    /\ ReposoColor /\ ReposoInterp /\ ReposoFiltros /\ ReposoCurvas /\ ReposoNan /\ ReposoClasificar

ValidarAntropometriasPacientes ==
    /\ fase = "leido"
    /\ validados' = validar_antropometrias_pacientes(antropometrias, pacientes)
    /\ reporte' = Reporte(pacientes, antropometrias)
    /\ fase' = "validado"
    /\ UNCHANGED <<pacientes, antropometrias, banderas, filtro_pac, varsColor, varsInterp, varsFiltros, varsCurvas, varsNan, varsClasificar>>

NextValidar == ValidarAntropometriasPacientes

SpecValidar == InitValidar /\ [][NextValidar]_vars

\* ---- leer_datos_curvas
InitCurvas ==
    /\ archivos \in Directorios
    /\ lectura = LecturaInicial
    /\ ReposoColor /\ ReposoBanderas /\ ReposoInterp /\ ReposoFiltros /\ ReposoValidar /\ ReposoNan /\ ReposoClasificar

LeerDatosCurvas ==
    /\ lectura # <<>>
    /\ lectura.estado = "leyendo"
    /\ lectura' = Pasada(archivos, lectura)
    /\ UNCHANGED <<archivos, varsColor, varsBanderas, varsInterp, varsFiltros, varsValidar, varsNan, varsClasificar>>

NextCurvas == LeerDatosCurvas

SpecCurvas == InitCurvas /\ [][NextCurvas]_vars

\* ---- procesar_tablas_intermedias: the calls of remover_nan
InitNan ==
    /\ nan_info = <<>>
    /\ llamadas = <<>>
    /\ ReposoColor /\ ReposoBanderas /\ ReposoInterp /\ ReposoFiltros /\ ReposoValidar /\ ReposoCurvas /\ ReposoClasificar

RemoverNan ==
    /\ Len(llamadas) < Len(LlamadasPrograma)
    /\ LET llamada == LlamadasPrograma[Len(llamadas) + 1] IN
       \E data_frame \in DataFrames(llamada.columns) :
          LET res == remover_nan(data_frame, llamada.nombre_df, nan_info) IN
          /\ nan_info' = res.info
          /\ llamadas' = Append(llamadas, [nombre_df |-> llamada.nombre_df,
                                           primera_nula |-> PrimerasNulas(data_frame),
                                           retorno |-> res.filas])
    /\ UNCHANGED <<varsColor, varsBanderas, varsInterp, varsFiltros, varsValidar, varsCurvas, varsClasificar>>

NextNan == RemoverNan

SpecNan == InitNan /\ [][NextNan]_vars


\* ---- procesar_tablas_visualizacion: the classification of the interpolated table
InitClasificar ==
    /\ pacientes \in TablasPacientes
    /\ antropometrias = <<>> /\ banderas = <<>> /\ fase = "interpolado"
    /\ filtro_pac = SinFiltroPac
    /\ ant_interpoladas \in TablasPorClasificar
    /\ ant_rangos = <<>>
    /\ ant_interpoladas_rangos = <<>>
    /\ ReposoColor /\ ReposoInterp /\ ReposoFiltros /\ ReposoValidar /\ ReposoCurvas /\ ReposoNan

CalcularColorAntropometrias ==
    /\ fase = "interpolado"
    /\ LET res == calcular_color_antropometrias(ZScoresLeidos, pacientes, ant_interpoladas) IN
       /\ ant_interpoladas' = res.antropometrias
       /\ ant_rangos' = res.ant_rangos
    /\ fase' = "clasificado"
    /\ UNCHANGED <<pacientes, antropometrias, banderas, filtro_pac, ant_interpoladas_rangos,
                   varsColor, varsInterp, varsFiltros, varsValidar, varsCurvas, varsNan>>

CombinarRangosAntropometrias ==
    /\ fase = "clasificado"
    /\ ant_interpoladas_rangos' = combinar_rangos_antropometrias(ant_rangos, ant_interpoladas)
    /\ fase' = "combinado"
    /\ UNCHANGED <<pacientes, antropometrias, banderas, filtro_pac, ant_interpoladas, ant_rangos,
                   varsColor, varsInterp, varsFiltros, varsValidar, varsCurvas, varsNan>>

NextClasificar == CalcularColorAntropometrias \/ CombinarRangosAntropometrias

SpecClasificar == InitClasificar /\ [][NextClasificar]_vars

(***************************************************************************)
(* Properties.                                                             *)
(***************************************************************************)
NoDecreciente(b) == \A i \in 1..(Len(b) - 1) : b[i] <= b[i+1]

Clasificado == colores.error # "pendiente"

\* C1: for a value and a boundary table whose boundaries at the row's day are
\* non-decreasing along the label order, calcular_color_ant returns the negative
\* outlier colour and no label when the value is below the first boundary, the positive
\* outlier colour and 'outlier_pos' when the value is at or above every boundary, and
\* otherwise the colour of the key label[i-1]_label[i] and the label label[i-1], where i
\* is the first index whose boundary exceeds the value, so that
\* boundary(label[i-1]) <= value < boundary(label[i]).
C1_BandaDeLaCurva ==
    (/\ Clasificado
     /\ fila_ant.valor # NaN
     /\ fila_ant.AC_EG_Dias \in DOMAIN z_scores_df.dias
     /\ NoDecreciente(z_scores_df.dias[fila_ant.AC_EG_Dias]))
    => LET b    == z_scores_df.dias[fila_ant.AC_EG_Dias]
           cols == Z_SCORE_COLS[z_scores_df.sistema]
           dicc == COLORES_RANGOS[z_scores_df.sistema]
           v    == fila_ant.valor
       IN  /\ v < b[1] =>
                colores = [error |-> "", color |-> dicc.outlier_neg, etiqueta |-> None]
           /\ (\A i \in 1..Len(b) : v >= b[i]) =>
                colores = [error |-> "", color |-> dicc.outlier_pos,
                           etiqueta |-> "outlier_pos"]
           /\ (v >= b[1] /\ \E i \in 1..Len(b) : v < b[i]) =>
                \E i \in 2..Len(b) :
                    /\ v < b[i]
                    /\ \A j \in 1..(i-1) : v >= b[j]
                    /\ b[i-1] <= v
                    /\ colores = [error |-> "",
                                  color |-> dicc[cols[i-1] \o "_" \o cols[i]],
                                  etiqueta |-> cols[i-1]]

\* C1 witness: a WHO row classified into the band between two reference curves.
C1_Testigo ==
    /\ Clasificado
    /\ z_scores_df.sistema = "who"
    /\ fila_ant.valor = 1
    /\ fila_ant.AC_EG_Dias \in DOMAIN z_scores_df.dias
    /\ NoDecreciente(z_scores_df.dias[fila_ant.AC_EG_Dias])
    /\ colores = [error |-> "", color |-> "#749eb8", etiqueta |-> "des_1"]

NombreSexo(id_sexo) == IF id_sexo = 2 THEN "ninas" ELSE "ninos"

\* A row of visit ac_num of the patient at label l, on a day of the 10th-percentile
\* table of the patient's sex, with the variable strictly below that entry.
MedidaBajoPercentil(l, ant_var, ac_num) ==
    /\ pacientes[l].Iden_Sexo \in {1, 2}
    /\ \E m \in DOMAIN antropometrias :
          LET fila == antropometrias[m]
              p10  == Percentiles10[NombreSexo(pacientes[l].Iden_Sexo)][ant_var]
          IN  /\ fila.Paciente_ID = pacientes[l].Paciente_ID
              /\ fila.AC_Num = ac_num
              /\ fila.AC_EG_Dias \in DOMAIN p10
              /\ ValorAnt(fila, ant_var) < p10[fila.AC_EG_Dias]

\* C2: after crear_bandera_rciu, for every patient of sex 1 or 2 and every growth
\* variable, RCIU_<variable> is true exactly when the patient has a birth row
\* (AC_Num = 0) on a day of the Fenton 10th-percentile table of the patient's sex with
\* the variable strictly below that entry; no birth row, or no matching day, leaves it false.
C2_BanderaRciu ==
    fase \in {"rciu", "rceu"} =>
        \A l \in DOMAIN pacientes : \A ant_var \in VarsAnt :
            pacientes[l].Iden_Sexo \in {1, 2} =>
                (banderas["RCIU_" \o ant_var][l] <=> MedidaBajoPercentil(l, ant_var, 0))

\* C2 witness: one patient flagged on weight, and another left unflagged whose birth
\* weight is low but on a day the percentile table lacks.
C2_Testigo ==
    /\ fase = "rciu"
    /\ \E l \in DOMAIN pacientes : banderas["RCIU_Peso"][l] /\ ~banderas["RCIU_PC"][l]
    /\ \E l \in DOMAIN pacientes :
          /\ ~banderas["RCIU_Peso"][l]
          /\ pacientes[l].Iden_Sexo \in {1, 2}
          /\ \E m \in DOMAIN antropometrias :
                /\ antropometrias[m].Paciente_ID = pacientes[l].Paciente_ID
                /\ antropometrias[m].AC_Num = 0
                /\ antropometrias[m].AC_Peso = 1
                /\ antropometrias[m].AC_EG_Dias \notin DiasCurva

\* C3: after crear_bandera_rceu, RCEU_Peso is true for a patient exactly when the
\* patient, identified by Paciente_ID, has a first follow-up row (AC_Num = 1) whose
\* weight is strictly below the matched Fenton 10th percentile of the patient's sex,
\* whatever index labels the patient and the row have in their tables.
C3_BanderaRceuPorPaciente ==
    fase = "rceu" =>
        \A l \in DOMAIN pacientes :
            banderas["RCEU_Peso"][l] <=> MedidaBajoPercentil(l, "Peso", 1)

\* C4: after crear_bandera_rceu the patient table carries the three columns RCEU_Peso,
\* RCEU_Talla and RCEU_PC, so that filtrar_por_RCEU can be applied afterwards with any
\* of the three variables listed.
C4_TresBanderasRceu ==
    /\ fase \in {"rceu", "guardado"} =>
          \A ant_var \in VarsAnt : "RCEU_" \o ant_var \in DOMAIN banderas
    /\ filtro_pac.filtro = "RCEU" => filtro_pac.error = ""

\* C10: filtrar_por_RCIU and filtrar_por_RCEU return a mask that is true exactly for
\* the patients whose flag equals the requested boolean for every listed variable; the
\* flags of variables not listed do not count, and an empty list gives an all-true mask.
C10_FiltroBanderas ==
    filtro_pac.filtro \in {"RCIU", "RCEU"} =>
        /\ filtro_pac.error = ""
        /\ DOMAIN filtro_pac.mascara = DOMAIN pacientes
        /\ \A l \in DOMAIN pacientes :
              filtro_pac.mascara[l] <=>
                  \A var \in Rango(filtro_pac.variables.vars) :
                      banderas[filtro_pac.filtro \o "_" \o var][l]
                          = filtro_pac.variables.valor[var]

Interpolado == df_interpolado # <<>>

\* The input rows of patient p in week w: 7*w <= AC_EG_Dias < 7*w + 7.
VisitasSemana(p, w) ==
    {l \in DOMAIN ant_semanal :
        /\ ant_semanal[l].Paciente_ID = p
        /\ 7 * w <= ant_semanal[l].AC_EG_Dias
        /\ ant_semanal[l].AC_EG_Dias < 7 * w + 7}

SemanasVisitadas(p) == {w \in 0..MaxSemana : VisitasSemana(p, w) # {}}

FilasSalida(p) == {n \in DOMAIN df_interpolado : df_interpolado[n].Paciente_ID = p}

\* C5: for every patient, interpolar_antropometrias outputs exactly one row for each
\* integer week from the patient's first to the patient's last visited week
\* (week = floor(AC_EG_Dias / 7)) and no other row; the row of week w has
\* AC_EG_Dias = 7*w and AC_Num = w - first week, so a patient with one distinct week
\* gets exactly one row.
C5_UnaFilaPorSemana ==
    Interpolado =>
        \A p \in IdsPacientes :
            LET S == SemanasVisitadas(p) IN
            /\ \A w \in 0..MaxSemana :
                  Cardinality({n \in FilasSalida(p) : df_interpolado[n].Semana = w})
                      = IF /\ S # {}
                           /\ \E a \in S : a <= w
                           /\ \E b \in S : w <= b
                        THEN 1 ELSE 0
            /\ \A n \in FilasSalida(p) :
                  /\ df_interpolado[n].Semana \in 0..MaxSemana
                  /\ df_interpolado[n].AC_EG_Dias = 7 * df_interpolado[n].Semana
                  /\ \E a \in S :
                        /\ \A c \in S : a <= c
                        /\ df_interpolado[n].AC_Num = df_interpolado[n].Semana - a

\* C5 witness: a patient visited in weeks 1 and 3 only, whose third row is week 3, and
\* a patient with a single row.
C5_Testigo ==
    /\ Interpolado
    /\ \E p \in IdsPacientes :
          /\ SemanasVisitadas(p) = {1, 3}
          /\ \E n \in FilasSalida(p) :
                /\ df_interpolado[n].AC_Num = 2
                /\ df_interpolado[n].Semana = 3
                /\ df_interpolado[n].AC_EG_Dias = 21
    /\ \E p \in IdsPacientes : Cardinality(FilasSalida(p)) = 1

\* C6: in the output of interpolar_antropometrias, for weight, length and head
\* circumference, a visited week carries the mean of that week's visit values, and a gap
\* week w between the nearest visited weeks a < w < b carries
\* v(a) + (v(b) - v(a)) * (w - a) / (b - a).  Visits of 3000 at week 0 and 4000 at week 4
\* give 3000, 3250, 3500, 3750, 4000; the value of a single-visit patient is unchanged.
C6_ValoresInterpolados ==
    Interpolado =>
        \A n \in DOMAIN df_interpolado : \A col \in ColsInterp :
            LET p == df_interpolado[n].Paciente_ID
                w == df_interpolado[n].Semana
                x == df_interpolado[n][col]
                S == SemanasVisitadas(p)
                suma(k) == SumaCol(ant_semanal, VisitasSemana(p, k), col)
                cuenta(k) == Cardinality(VisitasSemana(p, k))
            IN  /\ x[2] > 0
                /\ w \in S => x[1] * cuenta(w) = suma(w) * x[2]
                /\ w \notin S =>
                      \E a, b \in S :
                          /\ a < w /\ w < b
                          /\ \A c \in S : c <= a \/ c >= b
                          /\ x[1] * cuenta(a) * cuenta(b) * (b - a)
                               = x[2] * (suma(a) * cuenta(b) * (b - a)
                                         + (suma(b) * cuenta(a) - suma(a) * cuenta(b))
                                           * (w - a))
                /\ (\E l \in DOMAIN ant_semanal :
                        {k \in DOMAIN ant_semanal : ant_semanal[k].Paciente_ID = p} = {l})
                     => \E l \in DOMAIN ant_semanal :
                            /\ ant_semanal[l].Paciente_ID = p
                            /\ x = <<ant_semanal[l][col], 1>>

\* C6 witness: one patient with a visit of 3000 in week 0 and one of 4000 in week 4, whose
\* weights come out as 3000, 3250, 3500, 3750, 4000, and a single-visit patient whose
\* weight comes out unchanged.
C6_Testigo ==
    /\ Interpolado
    /\ \E p, q \in IdsPacientes :
          /\ SemanasVisitadas(p) = {0, 4}
          /\ \A l \in VisitasSemana(p, 0) : ant_semanal[l].AC_Peso = 3000
          /\ \A l \in VisitasSemana(p, 4) : ant_semanal[l].AC_Peso = 4000
          /\ \E n \in DOMAIN df_interpolado :
                /\ n + 4 \in DOMAIN df_interpolado
                /\ \A k \in 0..4 : df_interpolado[n + k].Paciente_ID = p
                /\ df_interpolado[n].AC_Peso = <<3000, 1>>
                /\ df_interpolado[n + 1].AC_Peso = <<3250, 1>>
                /\ df_interpolado[n + 2].AC_Peso = <<3500, 1>>
                /\ df_interpolado[n + 3].AC_Peso = <<3750, 1>>
                /\ df_interpolado[n + 4].AC_Peso = <<4000, 1>>
          /\ Cardinality(FilasSalida(q)) = 1
          /\ \E l \in DOMAIN ant_semanal : \E n \in FilasSalida(q) :
                /\ ant_semanal[l].Paciente_ID = q
                /\ df_interpolado[n].AC_Peso = <<ant_semanal[l].AC_Peso, 1>>

FiltroDesviacion == filtro_ant.filtro = "desviacion_estandar"

\* C7: filtrar_por_desviacion_estandar called with the unbounded sentinel string as min
\* ("none" / 'nomin') and max = 'des_2Neg' returns a mask that is true for every birth
\* row (AC_Num = 0) whose band label is null, 'outlier_neg', 'des_3Neg' or 'des_2Neg',
\* and false for every row whose label is above 'des_2Neg'.
C7_SinMinimoIncluyeInferiores ==
    (/\ FiltroDesviacion
     /\ filtro_ant.args.min \in {"none", "nomin"}
     /\ filtro_ant.args.max = "des_2Neg")
    => /\ filtro_ant.error = ""
       /\ \A l \in DOMAIN df_rangos :
             /\ (/\ df_rangos[l].AC_Num = 0
                 /\ df_rangos[l].AC_Peso_min \in {None, "outlier_neg", "des_3Neg", "des_2Neg"})
                => filtro_ant.mascara[l]
             /\ df_rangos[l].AC_Peso_min
                    \in {"des_1Neg", "des_0", "des_1", "des_2", "des_3", "outlier_pos"}
                => ~filtro_ant.mascara[l]

PosicionFenton(etiqueta) ==
    CHOOSE i \in 1..Len(Z_SCORE_COLS["fenton"]) : Z_SCORE_COLS["fenton"][i] = etiqueta

\* C8: filtrar_por_desviacion_estandar called with min and max both Fenton labels,
\* index(min) <= index(max), returns a mask that is true exactly for the rows with
\* AC_Num = 0 whose band label is in the inclusive label range min..max of the Fenton
\* order; it is false for every row with AC_Num # 0 and for every row whose label is
\* null, 'outlier_neg' or 'outlier_pos'.
C8_RangoInclusivoAlNacer ==
    (/\ FiltroDesviacion
     /\ filtro_ant.args.min \in EtiquetasFenton
     /\ filtro_ant.args.max \in EtiquetasFenton
     /\ PosicionFenton(filtro_ant.args.min) <= PosicionFenton(filtro_ant.args.max))
    => /\ filtro_ant.error = ""
       /\ DOMAIN filtro_ant.mascara = DOMAIN df_rangos
       /\ \A l \in DOMAIN df_rangos :
             /\ filtro_ant.mascara[l] <=>
                   /\ df_rangos[l].AC_Num = 0
                   /\ df_rangos[l].AC_Peso_min \in EtiquetasFenton
                   /\ PosicionFenton(filtro_ant.args.min)
                          <= PosicionFenton(df_rangos[l].AC_Peso_min)
                   /\ PosicionFenton(df_rangos[l].AC_Peso_min)
                          <= PosicionFenton(filtro_ant.args.max)
             /\ df_rangos[l].AC_Num # 0 => ~filtro_ant.mascara[l]
             /\ df_rangos[l].AC_Peso_min \in {None, "outlier_neg", "outlier_pos"}
                => ~filtro_ant.mascara[l]

\* C8 witness: cuts 'des_2Neg'..'des_0'; a birth row labelled with the upper cut is kept,
\* and a birth row labelled 'outlier_pos' is not.
C8_Testigo ==
    /\ FiltroDesviacion
    /\ filtro_ant.args = [min |-> "des_2Neg", max |-> "des_0"]
    /\ \E l, k \in DOMAIN df_rangos :
          /\ df_rangos[l].AC_Num = 0 /\ df_rangos[l].AC_Peso_min = "des_0"
          /\ filtro_ant.mascara[l]
          /\ df_rangos[k].AC_Num = 0 /\ df_rangos[k].AC_Peso_min = "outlier_pos"
          /\ ~filtro_ant.mascara[k]

\* The row's measurement of the variable fell in the outlier direction: the classifier
\* labels a value below the lowest curve None and one above the highest 'outlier_pos'.
CayoEnOutlier(fila, var, rango) ==
    IF rango = "outlier_neg"
    THEN fila[var \o "_min"] \in {None, "outlier_neg"}
    ELSE fila[var \o "_min"] = "outlier_pos"

\* C9: filtrar_outliers called with a list of variables and a list of outlier directions
\* returns a mask that is false for a row exactly when, for some listed variable, the
\* row's measurement fell in one of the requested directions; with both directions
\* requested, negative and positive outlier rows are both excluded.
C9_ExcluyeOutliersPedidos ==
    (filtro_ant.filtro = "outliers" /\ filtro_ant.args.rangos # <<>>) =>
        /\ filtro_ant.error = ""
        /\ \A l \in DOMAIN df_rangos :
              ~filtro_ant.mascara[l] <=>
                  \E var \in Rango(filtro_ant.args.vars) :
                      \E rango \in Rango(filtro_ant.args.rangos) :
                          CayoEnOutlier(df_rangos[l], var, rango)

\* C11: filtrar_por_edad_gestacional_nacimiento returns a mask that is true for a patient
\* exactly when N_EG_Dias >= min*7 and (N_EG_Dias <= max*7 or mas_de_40 is true); with
\* mas_de_40 true the value of max has no effect on the mask.
C11_EdadGestacionalNacimiento ==
    filtro_pac.filtro = "edad_gestacional_nacimiento" =>
        LET r == filtro_pac.variables IN
        /\ filtro_pac.error = ""
        /\ DOMAIN filtro_pac.mascara = DOMAIN pacientes
        /\ \A l \in DOMAIN pacientes :
               filtro_pac.mascara[l] <=>
                   /\ pacientes[l].N_EG_Dias # NaN
                   /\ pacientes[l].N_EG_Dias >= r.min * 7
                   /\ (pacientes[l].N_EG_Dias <= r.max * 7 \/ r.mas_de_40)
        /\ r.mas_de_40 =>
               \A m \in SemanasNacimiento :
                   filtrar_por_edad_gestacional_nacimiento(pacientes, [r EXCEPT !.max = m])
                       = Mascara(filtro_pac.mascara)

\* C11 witness: with mas_de_40 a patient born after max weeks (and before 40 weeks) is
\* kept, and a patient born before min weeks is not.
C11_Testigo ==
    /\ filtro_pac.filtro = "edad_gestacional_nacimiento"
    /\ filtro_pac.variables = [min |-> 28, max |-> 28, mas_de_40 |-> TRUE]
    /\ \E l, k \in DOMAIN pacientes :
          /\ pacientes[l].N_EG_Dias = 210 /\ filtro_pac.mascara[l]
          /\ pacientes[k].N_EG_Dias = 195 /\ ~filtro_pac.mascara[k]

\* C12: when a range filter is called with an inconsistent parameter set (min > max), the
\* filter step aborts with an error propagated to the caller instead of returning a mask.
C12_RangoInconsistenteAborta ==
    (/\ filtro_pac.filtro \in {"edad_gestacional_nacimiento", "dias_hospitalizacion"}
     /\ filtro_pac.variables.min > filtro_pac.variables.max)
    => filtro_pac.error # ""

Validado == fase = "validado" /\ validados # <<>>

\* What it is for an input measurement to fail the filter of that name.
MedidaValida(fila) ==
    /\ fila.AC_EG_Dias # NaN /\ fila.AC_EG_Dias >= 171
    /\ fila.AC_Peso # NaN /\ fila.AC_Peso > 500
    /\ fila.AC_PC # NaN /\ fila.AC_PC > 15
    /\ fila.AC_Talla # NaN /\ fila.AC_Talla > 25

TieneMedidaValida(id, ac_num) ==
    \E l \in DOMAIN antropometrias :
        /\ antropometrias[l].Paciente_ID = id
        /\ antropometrias[l].AC_Num = ac_num
        /\ MedidaValida(antropometrias[l])

PacienteFalla(nombre, fila) ==
    CASE nombre = "Sexo no es 3" -> fila.Iden_Sexo = 3
      [] nombre = "No tiene antopometria de nacimiento o esta no tiene valores validos" ->
             ~TieneMedidaValida(fila.Paciente_ID, 0)
      [] nombre = "No tiene anrtopometria de llegada o esta no tiene valores validos" ->
             ~TieneMedidaValida(fila.Paciente_ID, 1)

PacienteRetenido(id) ==
    \E k \in DOMAIN validados.pacientes : validados.pacientes[k].Paciente_ID = id

MedidaFalla(nombre, fila) ==
    CASE nombre = "edad < 171" -> fila.AC_EG_Dias = NaN \/ fila.AC_EG_Dias < 171
      [] nombre = "nacimiento nulo" -> fila.AC_EG_Dias = NaN
      [] nombre = "peso nulo" -> fila.AC_Peso = NaN
      [] nombre = "pc nulo" -> fila.AC_PC = NaN
      [] nombre = "talla nula" -> fila.AC_Talla = NaN
      [] nombre = "peso < 500 gr" -> fila.AC_Peso = NaN \/ fila.AC_Peso <= 500
      [] nombre = "pc < 15 cm" -> fila.AC_PC = NaN \/ fila.AC_PC <= 15
      [] nombre = "talla < 25 cm" -> fila.AC_Talla = NaN \/ fila.AC_Talla <= 25
      [] nombre = "no tiene datos paciente" -> ~PacienteRetenido(fila.Paciente_ID)

EntradasDe(tabla) == {i \in 1..Len(reporte) : reporte[i].tabla = tabla}

\* C13: in validar_antropometrias_pacientes a patient or measurement record is absent
\* from the returned tables if and only if the exclusion report lists it, with its
\* identity, under at least one filter; and for each filter the count written equals the
\* number of input records that fail that filter.
C13_ReporteDeExclusiones ==
    Validado =>
        /\ {reporte[i].nombre : i \in EntradasDe("pacientes")} = Rango(nombres_filtros_pac)
        /\ {reporte[i].nombre : i \in EntradasDe("antropometrias")}
               = Rango(nombres_filtros_ant)
        /\ \A l \in DOMAIN pacientes :
               l \notin DOMAIN validados.pacientes <=>
                   \E i \in EntradasDe("pacientes") :
                       /\ l \in DOMAIN reporte[i].lineas
                       /\ reporte[i].lineas[l] = [Paciente_ID |-> pacientes[l].Paciente_ID]
        /\ \A l \in DOMAIN antropometrias :
               l \notin DOMAIN validados.antropometrias <=>
                   \E i \in EntradasDe("antropometrias") :
                       /\ l \in DOMAIN reporte[i].lineas
                       /\ reporte[i].lineas[l] =
                              [AC_Num |-> antropometrias[l].AC_Num,
                               Paciente_ID |-> antropometrias[l].Paciente_ID]
        /\ \A l \in DOMAIN validados.pacientes : validados.pacientes[l] = pacientes[l]
        /\ \A l \in DOMAIN validados.antropometrias :
               validados.antropometrias[l] = antropometrias[l]
        /\ \A i \in EntradasDe("pacientes") :
               /\ reporte[i].cuenta = Cardinality(DOMAIN reporte[i].lineas)
               /\ reporte[i].cuenta =
                      Cardinality({l \in DOMAIN pacientes :
                                      PacienteFalla(reporte[i].nombre, pacientes[l])})
        /\ \A i \in EntradasDe("antropometrias") :
               /\ reporte[i].cuenta = Cardinality(DOMAIN reporte[i].lineas)
               /\ reporte[i].cuenta =
                      Cardinality({l \in DOMAIN antropometrias :
                                      MedidaFalla(reporte[i].nombre, antropometrias[l])})

\* C13 witness: a valid measurement is dropped only because its patient was excluded for
\* sex 3, and both are listed; another patient and its measurements are returned.
C13_Testigo ==
    /\ Validado
    /\ \E l \in DOMAIN antropometrias, k \in DOMAIN pacientes :
          /\ MedidaValida(antropometrias[l])
          /\ pacientes[k].Paciente_ID = antropometrias[l].Paciente_ID
          /\ pacientes[k].Iden_Sexo = 3
          /\ l \notin DOMAIN validados.antropometrias
          /\ k \notin DOMAIN validados.pacientes
          /\ \E i \in EntradasDe("antropometrias") :
                /\ reporte[i].nombre = "no tiene datos paciente"
                /\ reporte[i].cuenta = 1
                /\ l \in DOMAIN reporte[i].lineas
    /\ validados.pacientes # <<>>
    /\ Cardinality(DOMAIN validados.antropometrias) = 2

NacimientosRetenidos(id) ==
    {l \in DOMAIN validados.antropometrias :
        /\ validados.antropometrias[l].Paciente_ID = id
        /\ validados.antropometrias[l].AC_Num = 0}

NacimientosLeidos(id) ==
    {l \in DOMAIN antropometrias :
        antropometrias[l].Paciente_ID = id /\ antropometrias[l].AC_Num = 0}

\* C20: after validar_antropometrias_pacientes every retained patient has exactly one
\* retained measurement with AC_Num = 0, for any input measurement table.
C20_UnNacimientoPorPaciente ==
    Validado =>
        \A k \in DOMAIN validados.pacientes :
            Cardinality(NacimientosRetenidos(validados.pacientes[k].Paciente_ID)) = 1

\* C20, amended: every retained patient has at least one retained measurement with
\* AC_Num = 0 (and at least one with AC_Num = 1), all of them valid; it has exactly one
\* when the input table holds at most one valid AC_Num = 0 row for that patient.
C20_AlMenosUnNacimiento ==
    Validado =>
        \A k \in DOMAIN validados.pacientes :
            LET id == validados.pacientes[k].Paciente_ID IN
            /\ Cardinality(NacimientosRetenidos(id)) >= 1
            /\ \E l \in DOMAIN validados.antropometrias :
                   /\ validados.antropometrias[l].Paciente_ID = id
                   /\ validados.antropometrias[l].AC_Num = 1
            /\ NacimientosRetenidos(id) =
                   {l \in NacimientosLeidos(id) : MedidaValida(antropometrias[l])}
            /\ Cardinality({l \in NacimientosLeidos(id) : MedidaValida(antropometrias[l])}) <= 1
                   => Cardinality(NacimientosRetenidos(id)) = 1

\* C20 witness: a retained patient read with two birth rows, one of them invalid, keeps
\* exactly the valid one.
C20_Testigo ==
    /\ Validado
    /\ \E k \in DOMAIN validados.pacientes :
          LET id == validados.pacientes[k].Paciente_ID IN
          /\ Cardinality(NacimientosLeidos(id)) = 2
          /\ Cardinality(NacimientosRetenidos(id)) = 1

\* C14: leer_datos_curvas either returns boundary tables for all 12 (system, sex,
\* variable) combinations and Fenton percentile tables for all 6 (sex, variable)
\* combinations, or, if any expected file is absent, fails with an error and returns no
\* tables at all: no partially filled result reaches the caller.
C14_LecturaCompletaONada ==
    lectura # <<>> =>
        /\ lectura.estado = "retornado" =>
              /\ lectura.retorno.z_scores =
                     {<<c, x, v>> : c \in {"fenton", "who"}, x \in {"ninos", "ninas"},
                                    v \in {"pc", "talla", "peso"}}
              /\ Cardinality(lectura.retorno.z_scores) = 12
              /\ lectura.retorno.percentiles =
                     {<<"fenton", x, v>> : x \in {"ninos", "ninas"},
                                           v \in {"pc", "talla", "peso"}}
              /\ Cardinality(lectura.retorno.percentiles) = 6
              /\ archivos = ArchivosEsperados
        /\ lectura.estado # "retornado" => lectura.retorno = SinRetorno
        /\ (archivos # ArchivosEsperados /\ lectura.estado # "leyendo")
               => lectura.estado = "FileNotFoundError"

\* C14 witness: the run fails on an absent file after some tables were already loaded
\* into the local dictionaries, and the caller receives nothing.
C14_Testigo ==
    /\ lectura # <<>>
    /\ lectura.estado = "FileNotFoundError"
    /\ lectura.z_scores # {} /\ lectura.percentiles # {}
    /\ lectura.retorno = SinRetorno

\* C15: the outlier thresholds added to a boundary table by calcular_color_ant_edad are,
\* at every age, outlier_neg = boundary(first label) - 5*(boundary(second label) -
\* boundary(first label)) and outlier_pos = boundary(last label) + 5 times an inter-label
\* gap, so that they lie outside the lowest and the highest reference curve.
C15_UmbralesDesdeLosExtremos ==
    (/\ Clasificado
     /\ \A d \in DOMAIN z_scores_df.dias :
            /\ NoDecreciente(z_scores_df.dias[d])
            /\ ColumnaZ(z_scores_df, d, "des_0") < ColumnaZ(z_scores_df, d, "des_1"))
    => \A d \in DOMAIN z_scores_df.dias :
           LET b == z_scores_df.dias[d] IN
           /\ z_scores_df.outlier_neg[d] = b[1] - 5 * (b[2] - b[1])
           /\ \E i \in 1..(Len(b) - 1) :
                  z_scores_df.outlier_pos[d] = b[Len(b)] + 5 * (b[i+1] - b[i])
           /\ z_scores_df.outlier_neg[d] <= b[1]
           /\ z_scores_df.outlier_pos[d] >= b[Len(b)]

\* C15, amended: at every age the thresholds are taken around the median curve,
\* outlier_neg = boundary(des_0) - 5*(boundary(des_1) - boundary(des_0)) and
\* outlier_pos = boundary(des_0) + 5*(boundary(des_1) - boundary(des_0)); the boundary
\* columns themselves are left as they were.
C15_UmbralesDesdeLaMediana ==
    Clasificado =>
        /\ DOMAIN z_scores_df.outlier_neg = DOMAIN z_scores_df.dias
        /\ DOMAIN z_scores_df.outlier_pos = DOMAIN z_scores_df.dias
        /\ \A d \in DOMAIN z_scores_df.dias :
               LET cols  == Z_SCORE_COLS[z_scores_df.sistema]
                   i0    == CHOOSE i \in 1..Len(cols) : cols[i] = "des_0"
                   des_0 == z_scores_df.dias[d][i0]
                   des_1 == z_scores_df.dias[d][i0 + 1]
               IN  /\ cols[i0 + 1] = "des_1"
                   /\ z_scores_df.outlier_neg[d] = des_0 - 5 * (des_1 - des_0)
                   /\ z_scores_df.outlier_pos[d] = des_0 + 5 * (des_1 - des_0)

\* C15 witness: a Fenton table whose curves rise from des_3Neg to des_3, with the median
\* at 1 and des_1 at 2: the thresholds are -4 and 6.
C15_Testigo ==
    /\ Clasificado
    /\ z_scores_df.sistema = "fenton"
    /\ \E d \in DOMAIN z_scores_df.dias :
          /\ NoDecreciente(z_scores_df.dias[d])
          /\ z_scores_df.dias[d][1] = 0
          /\ z_scores_df.dias[d][4] = 1
          /\ z_scores_df.dias[d][5] = 2
          /\ z_scores_df.outlier_neg[d] = -4
          /\ z_scores_df.outlier_pos[d] = 6

LlavesBuscadas(s) ==
    {Z_SCORE_COLS[s][i-1] \o "_" \o Z_SCORE_COLS[s][i] : i \in 2..Len(Z_SCORE_COLS[s])}

\* C17: classification is total and deterministic for both reference systems: every
\* joined key label[i-1]_label[i] that calcular_color_ant can look up, and the keys
\* 'outlier_neg' and 'outlier_pos', exist in the COLORES_RANGOS map of the system, so
\* every finite value yields exactly one (colour, label) pair, and equal (value, age,
\* table) inputs yield the same pair.
C17_ClasificacionTotal ==
    /\ \A s \in Sistemas :
           LlavesBuscadas(s) \cup {"outlier_neg", "outlier_pos"} \subseteq DOMAIN COLORES_RANGOS[s]
    /\ (Clasificado /\ fila_ant.valor # NaN) =>
           /\ colores.error = ""
           /\ colores.color \in {COLORES_RANGOS[z_scores_df.sistema][k] :
                                    k \in DOMAIN COLORES_RANGOS[z_scores_df.sistema]}
           /\ colores.etiqueta \in
                  Rango(Z_SCORE_COLS[z_scores_df.sistema]) \cup {None, "outlier_pos"}
           /\ colores = calcular_color_ant(fila_ant.valor,
                                           LimitesUnidos(fila_ant, z_scores_df),
                                           Z_SCORE_COLS[z_scores_df.sistema],
                                           COLORES_RANGOS[z_scores_df.sistema])

\* C17 witness: a Fenton value between the curves des_2 and des_3.
C17_Testigo ==
    /\ Clasificado
    /\ z_scores_df.sistema = "fenton"
    /\ fila_ant.valor = 1
    /\ fila_ant.AC_EG_Dias \in DOMAIN z_scores_df.dias
    /\ colores = [error |-> "", color |-> "#8310cc", etiqueta |-> "des_2"]

\* The only birth row of the patient at label l.
UnicoNacimiento(l, m) ==
    /\ antropometrias[m].Paciente_ID = pacientes[l].Paciente_ID
    /\ antropometrias[m].AC_Num = 0
    /\ \A n \in DOMAIN antropometrias :
           (antropometrias[n].Paciente_ID = pacientes[l].Paciente_ID
               /\ antropometrias[n].AC_Num = 0) => n = m

\* C16: flagging is monotonic in the measured value: for two patients of the same sex
\* whose birth measurements have the same age and values v1 < v2, if the patient with v2
\* is flagged for a variable by crear_bandera_rciu then the patient with v1 is flagged
\* for it too.
C16_BanderaMonotona ==
    fase \in {"rciu", "rceu"} =>
        \A la, lb \in DOMAIN pacientes : \A ma, mb \in DOMAIN antropometrias :
            \A ant_var \in VarsAnt :
                (/\ pacientes[la].Iden_Sexo = pacientes[lb].Iden_Sexo
                 /\ UnicoNacimiento(la, ma) /\ UnicoNacimiento(lb, mb)
                 /\ antropometrias[ma].AC_EG_Dias = antropometrias[mb].AC_EG_Dias
                 /\ ValorAnt(antropometrias[ma], ant_var) < ValorAnt(antropometrias[mb], ant_var)
                 /\ banderas["RCIU_" \o ant_var][lb])
                => banderas["RCIU_" \o ant_var][la]

\* C16 witness: two girls measured at birth on the same day with lengths 1 and 2, both
\* below the percentile and both flagged, while on head circumference the same two
\* values leave neither flagged or only the smaller one.
C16_Testigo ==
    /\ fase = "rciu"
    /\ \E la, lb \in DOMAIN pacientes : \E ma, mb \in DOMAIN antropometrias :
          /\ pacientes[la].Iden_Sexo = 2 /\ pacientes[lb].Iden_Sexo = 2
          /\ UnicoNacimiento(la, ma) /\ UnicoNacimiento(lb, mb)
          /\ antropometrias[ma].AC_EG_Dias = antropometrias[mb].AC_EG_Dias
          /\ antropometrias[ma].AC_Talla = 1 /\ antropometrias[mb].AC_Talla = 2
          /\ banderas["RCIU_Talla"][la] /\ banderas["RCIU_Talla"][lb]
          /\ antropometrias[ma].AC_Peso = 1 /\ antropometrias[mb].AC_Peso = 2
          /\ banderas["RCIU_Peso"][la] /\ ~banderas["RCIU_Peso"][lb]

\* C18: crear_bandera_rceu returns after only the first sex iteration: it evaluates
\* female patients (sex id 2) and returns before male patients (sex id 1) are evaluated,
\* so no male patient is ever flagged RCEU.
C18_NingunNinoRceu ==
    fase = "rceu" =>
        \A l \in DOMAIN pacientes :
            pacientes[l].Iden_Sexo = 1 =>
                \A c \in DOMAIN banderas :
                    c \in {"RCEU_" \o v : v \in VarsAnt} => ~banderas[c][l]

\* The arrival row (AC_Num = 1) at index label m belongs to a patient of sex 1 or 2 and
\* its weight is below the matched 10th percentile of that sex.
LlegadaBajoPercentil(m, id_sexo) ==
    /\ antropometrias[m].AC_Num = 1
    /\ \E k \in DOMAIN pacientes :
          /\ pacientes[k].Paciente_ID = antropometrias[m].Paciente_ID
          /\ pacientes[k].Iden_Sexo = id_sexo
    /\ LET p10 == Percentiles10[NombreSexo(id_sexo)]["Peso"] IN
       /\ antropometrias[m].AC_EG_Dias \in DOMAIN p10
       /\ antropometrias[m].AC_Peso < p10[antropometrias[m].AC_EG_Dias]

\* C18, amended: crear_bandera_rceu returns after only the first iteration of the loop
\* on the growth variables (weight), once both sex iterations are done: RCEU_Peso is the
\* only RCEU column, and it is True at the index labels of the arrival rows below the
\* percentile of female and of male patients alike.
C18_RetornaTrasPeso ==
    fase = "rceu" =>
        /\ DOMAIN banderas \cap {"RCEU_" \o v : v \in VarsAnt} = {"RCEU_Peso"}
        /\ \A l \in DOMAIN pacientes :
               banderas["RCEU_Peso"][l] <=>
                   /\ l \in DOMAIN antropometrias
                   /\ \E id_sexo \in {1, 2} : LlegadaBajoPercentil(l, id_sexo)

\* C18 witness: a male patient flagged RCEU_Peso, from the arrival row of a male patient.
C18_Testigo ==
    /\ fase = "rceu"
    /\ \E l \in DOMAIN pacientes :
          /\ pacientes[l].Iden_Sexo = 1
          /\ banderas["RCEU_Peso"][l]
          /\ l \in DOMAIN antropometrias
          /\ LlegadaBajoPercentil(l, 1)

\* C19: interpolar_antropometrias leaves the measurement table it receives unchanged: the
\* same columns and the same cell values after the call as before.
C19_TablaRecibidaIntacta == [][ant_semanal' = ant_semanal]_vars

RetenidasDe(id, ac_num) ==
    {l \in DOMAIN validados.antropometrias :
        /\ validados.antropometrias[l].Paciente_ID = id
        /\ validados.antropometrias[l].AC_Num = ac_num}

\* C21: after validar_antropometrias_pacientes every retained measurement passes all
\* validity checks (age >= 171 days, non-null age, weight, length and head
\* circumference, weight > 500, head circumference > 15, length > 25) and belongs to a
\* retained patient; every retained patient has Iden_Sexo != 3, at least one retained
\* measurement with AC_Num = 0 and at least one with AC_Num = 1.
C21_TablasValidadas ==
    Validado =>
        /\ \A l \in DOMAIN validados.antropometrias :
               LET fila == validados.antropometrias[l] IN
               /\ fila.AC_EG_Dias # NaN /\ fila.AC_EG_Dias >= 171
               /\ fila.AC_Peso # NaN /\ fila.AC_Peso > 500
               /\ fila.AC_PC # NaN /\ fila.AC_PC > 15
               /\ fila.AC_Talla # NaN /\ fila.AC_Talla > 25
               /\ \E k \in DOMAIN validados.pacientes :
                      validados.pacientes[k].Paciente_ID = fila.Paciente_ID
        /\ \A k \in DOMAIN validados.pacientes :
               /\ validados.pacientes[k].Iden_Sexo # 3
               /\ RetenidasDe(validados.pacientes[k].Paciente_ID, 0) # {}
               /\ RetenidasDe(validados.pacientes[k].Paciente_ID, 1) # {}

\* C21 witness: one patient is returned with its birth and arrival rows, while a row of
\* weight 500 of the same patient was dropped.
C21_Testigo ==
    /\ Validado
    /\ \E k \in DOMAIN validados.pacientes :
          LET id == validados.pacientes[k].Paciente_ID IN
          /\ Cardinality(RetenidasDe(id, 0)) = 1
          /\ Cardinality(RetenidasDe(id, 1)) = 1
          /\ \E l \in DOMAIN antropometrias :
                /\ antropometrias[l].Paciente_ID = id
                /\ antropometrias[l].AC_Peso = 500
                /\ antropometrias[l].AC_EG_Dias = 259
                /\ l \notin DOMAIN validados.antropometrias

\* C23: a measurement whose AC_EG_Dias has no exact-day entry in the boundary table, or
\* whose value is null, is classified by calcular_color_ant_edad as (outlier_pos colour,
\* 'outlier_pos'): a missing reference day is not distinguishable from a genuine positive
\* outlier.
C23_SinReferenciaEsOutlierPos ==
    (/\ Clasificado
     /\ \/ fila_ant.AC_EG_Dias \notin DOMAIN z_scores_df.dias
        \/ fila_ant.valor = NaN)
    => colores = [error |-> "",
                  color |-> COLORES_RANGOS[z_scores_df.sistema]["outlier_pos"],
                  etiqueta |-> "outlier_pos"]

\* C23 witness: a value below every curve of the table, on a day the table lacks, gets
\* the same result as a value at or above every curve on a day the table has.
C23_Testigo ==
    /\ Clasificado
    /\ fila_ant.AC_EG_Dias \notin DOMAIN z_scores_df.dias
    /\ fila_ant.valor = 0
    /\ \A d \in DOMAIN z_scores_df.dias :
           \A i \in 1..Len(z_scores_df.dias[d]) : z_scores_df.dias[d][i] > 0
    /\ colores.etiqueta = "outlier_pos"
    /\ colores = calcular_color_ant_edad([AC_EG_Dias |-> 259, valor |-> MaxValor],
                                         z_scores_df)

\* The only birth row (AC_Num = 0) of its patient in the received table, and no row of
\* the patient is earlier.
NacimientoDe(l) ==
    /\ ant_semanal[l].AC_Num = 0
    /\ \A k \in DOMAIN ant_semanal :
           ant_semanal[k].Paciente_ID = ant_semanal[l].Paciente_ID =>
               /\ ant_semanal[k].AC_Num = 0 => k = l
               /\ ant_semanal[k].AC_EG_Dias >= ant_semanal[l].AC_EG_Dias

\* C24: for every patient that has a birth measurement (input AC_Num = 0), the row with
\* AC_Num = 0 in the output of interpolar_antropometrias carries exactly that birth
\* measurement's weight, length and head circumference.
C24_FilaCeroEsElNacimiento ==
    Interpolado =>
        \A l \in DOMAIN ant_semanal :
            NacimientoDe(l) =>
                \A n \in DOMAIN df_interpolado :
                    (/\ df_interpolado[n].Paciente_ID = ant_semanal[l].Paciente_ID
                     /\ df_interpolado[n].AC_Num = 0)
                    => /\ df_interpolado[n].AC_Peso = Frac(ant_semanal[l].AC_Peso, 1)
                       /\ df_interpolado[n].AC_Talla = Frac(ant_semanal[l].AC_Talla, 1)
                       /\ df_interpolado[n].AC_PC = Frac(ant_semanal[l].AC_PC, 1)

\* C25: after any sequence of remover_nan calls, every row dropped by any call is
\* recorded in nan_info under the table name of that call and under the first column in
\* which the row was null; ids recorded by an earlier call are still present after later
\* calls made with the same table name.
C25_NanInfoConservaLosIds ==
    \A k \in 1..Len(llamadas) :
        /\ llamadas[k].retorno = IdsFilas \ DOMAIN llamadas[k].primera_nula
        /\ \A id \in DOMAIN llamadas[k].primera_nula :
              /\ llamadas[k].nombre_df \in DOMAIN nan_info
              /\ llamadas[k].primera_nula[id] \in DOMAIN nan_info[llamadas[k].nombre_df]
              /\ id \in nan_info[llamadas[k].nombre_df][llamadas[k].primera_nula[id]]

\* The result a row is due: against the table of the patient's sex and of the row's age.
SexosDe(id) == {pacientes[k].Iden_Sexo : k \in {j \in DOMAIN pacientes : pacientes[j].Paciente_ID = id}}

ResultadoContra(fila, sistema, sexo, v) ==
    LET r == calcular_color_ant_edad([AC_EG_Dias |-> fila.AC_EG_Dias, valor |-> fila[v.curve_var]],
                                     ConOutliers(ZScoresLeidos[sistema][sexo][v.z_score_var]))
    IN  [color |-> r.color, min |-> r.etiqueta]

ResultadoDebido(fila, v) ==
    IF SexosDe(fila.Paciente_ID) \cap {1, 2} = {} THEN SinResultado
    ELSE ResultadoContra(fila,
                         IF fila.AC_EG_Dias <= 280 THEN "fenton" ELSE "who",
                         NombreSexo(CHOOSE x \in SexosDe(fila.Paciente_ID) : x \in {1, 2}),
                         v)

ResultadoEn(fila, curve_var) ==
    [color |-> fila[curve_var \o "_color"], min |-> fila[curve_var \o "_min"]]

\* C22: after calcular_color_antropometrias and combinar_rangos_antropometrias, every
\* measurement row appears once in the combined table; a row of a patient of sex 1 or 2
\* carries, for each growth variable, the result of classifying it against the Fenton
\* table of that sex if AC_EG_Dias <= 280 and against the WHO table of that sex if
\* AC_EG_Dias > 280; a row of a patient of any other sex carries no result.
C22_ClasificadaUnaVez ==
    fase = "combinado" =>
        /\ DOMAIN ant_interpoladas_rangos = DOMAIN ant_interpoladas
        /\ \A l \in DOMAIN ant_interpoladas :
              /\ Len(ant_interpoladas_rangos[l]) = 1
              /\ \A n \in 1..Len(variables_curvas_ant) :
                    ResultadoEn(ant_interpoladas_rangos[l][1], variables_curvas_ant[n].curve_var)
                        = ResultadoDebido(ant_interpoladas[l], variables_curvas_ant[n])

\* A girl's row at day 280 whose weight result neither the WHO table of girls nor the
\* Fenton table of boys would have given, and a row of another patient that carries no
\* result, the patient table holding a patient of sex 3.
C22_Testigo ==
    /\ fase = "combinado"
    /\ \E k \in DOMAIN pacientes : pacientes[k].Iden_Sexo = 3
    /\ \E l, m \in DOMAIN ant_interpoladas :
          LET v == variables_curvas_ant[1] IN
          /\ SexosDe(ant_interpoladas[l].Paciente_ID) = {2}
          /\ ant_interpoladas[l].AC_EG_Dias = 280
          /\ ResultadoEn(ant_interpoladas_rangos[l][1], "AC_Peso")
                 # ResultadoContra(ant_interpoladas[l], "who", "ninas", v)
          /\ ResultadoEn(ant_interpoladas_rangos[l][1], "AC_Peso")
                 # ResultadoContra(ant_interpoladas[l], "fenton", "ninos", v)
          /\ ant_interpoladas[m].Paciente_ID # ant_interpoladas[l].Paciente_ID
          /\ ResultadoEn(ant_interpoladas_rangos[m][1], "AC_Peso") = SinResultado

====
